---------------------------- MODULE Spec2Model ----------------------------
(***************************************************************************)
(* A model of the six-phase teaching compiler (services/compiler.ts) and   *)
(* of the components that drive it (CompilerStepVisualizer, PhaseVisualizer)*)
(*                                                                         *)
(* Strings are TLA+ strings; a character is a string of length one.  A JS  *)
(* `undefined` is the value Undefined.  A call of a service function is an *)
(* operator returning a record whose field st is "ok", "error" (an         *)
(* exception was thrown; field error holds it) or "hang" (a loop of the    *)
(* source repeats a state and so never ends).                              *)
(***************************************************************************)
EXTENDS Integers, Sequences, FiniteSets, TLC

VARIABLES
    sourceCode,     \* the editor's text (prop sourceCode)
    currentStep,    \* CompilerStepVisualizer.currentStep, an index into steps
    tokens,         \* token list handed to syntaxAnalysis / returned by the lexer
    ast,            \* AST returned by syntaxAnalysis
    symbolTable,    \* symbol table returned by semanticAnalysis
    irCode,         \* lines returned by generateIntermediateCode
    optimizedCode,  \* lines returned by optimize
    targetCode,     \* lines returned by generateTargetCode
    outcome,        \* "idle", "ok", "error" or "hang": how the last call ended
    error,          \* the exception the last call threw, or NoError
    attempted,      \* the service functions the last run called, in call order
    tempCounter,    \* generateIntermediateCode's tempCounter after its last call
    labelCounter,   \* generateIntermediateCode's labelCounter after its last call
    currentPhase,   \* CompilerDemo.currentPhase, an index into phases
    activePhase,    \* CompilerDemo.activePhase, the phase prop of PhaseVisualizer
    showPhases      \* CompilerDemo.showPhases: the phase viewer is open

vars == <<sourceCode, currentStep, tokens, ast, symbolTable, irCode,
          optimizedCode, targetCode, outcome, error, attempted,
          tempCounter, labelCounter, currentPhase, activePhase, showPhases>>

-----------------------------------------------------------------------------
(* Bounds *)

MaxSourceLen == 4      \* characters typed in the lexer specification
MaxTokens == 4         \* tokens of a stream in the parser specification
MaxStmts == 2          \* statements of a source in the pipeline specification
MaxLines == 3          \* lines of an IR list in the optimizer specification

-----------------------------------------------------------------------------
(* JS values *)

Undefined == "<undefined>"
Null == "<null>"
NoError == [name |-> "none"]

\* `${v}` : a template literal prints undefined as the word undefined
Str(v) == IF v = Undefined THEN "undefined" ELSE v

\* new CompilerError(message, phase, line, column)
CompilerError(message, phase, line, column) ==
    [name |-> "CompilerError", message |-> message, phase |-> phase,
     line |-> line, column |-> column]

\* a TypeError raised by the runtime (property read of undefined, ...)
TypeError(message) ==
    [name |-> "TypeError", message |-> message, phase |-> Undefined,
     line |-> Undefined, column |-> Undefined]

Ok(fields) == [st |-> "ok"] @@ fields
Throw(e) == [st |-> "error", error |-> e]
Hang == [st |-> "hang"]

-----------------------------------------------------------------------------
(* String primitives *)

CharAt(s, i) == SubSeq(s, i, i)      \* s[i-1] of the source, 1-based here

StartsWith(s, p) == Len(s) >= Len(p) /\ SubSeq(s, 1, Len(p)) = p

EndsWith(s, p) ==
    Len(s) >= Len(p) /\ SubSeq(s, Len(s) - Len(p) + 1, Len(s)) = p

\* s.indexOf(p) as a 1-based position, 0 when absent
IndexOf(s, p) ==
    LET first(hits) == IF hits = {} THEN 0 ELSE CHOOSE i \in hits : \A j \in hits : i <= j
    IN  first({i \in 1..(Len(s) - Len(p) + 1) : SubSeq(s, i, i + Len(p) - 1) = p})

\* s.includes(p)
Includes(s, p) == \E i \in 1..(Len(s) - Len(p) + 1) : SubSeq(s, i, i + Len(p) - 1) = p

RECURSIVE Split(_, _)
\* s.split(sep) for a non-empty separator
Split(s, sep) ==
    LET cut(k) == IF k = 0 THEN <<s>>
                  ELSE <<SubSeq(s, 1, k - 1)>> \o Split(SubSeq(s, k + Len(sep), Len(s)), sep)
    IN  cut(IndexOf(s, sep))

RECURSIVE Join(_, _)
\* parts.join(sep): an undefined element is joined as the empty string
Join(parts, sep) ==
    LET text(v) == IF v = Undefined THEN "" ELSE v
    IN  IF parts = <<>> THEN ""
        ELSE IF Len(parts) = 1 THEN text(parts[1])
        ELSE text(parts[1]) \o sep \o Join(Tail(parts), sep)

\* /\s/
Whitespace == {" ", "\n", "\t", "\r"}

LowerCase == {"a","b","c","d","e","f","g","h","i","j","k","l","m",
              "n","o","p","q","r","s","t","u","v","w","x","y","z"}
UpperCase == {"A","B","C","D","E","F","G","H","I","J","K","L","M",
              "N","O","P","Q","R","S","T","U","V","W","X","Y","Z"}
Digit == {"0","1","2","3","4","5","6","7","8","9"}

IsSpace(c) == c \in Whitespace                                  \* /\s/
IsIdentStart(c) == c \in LowerCase \cup UpperCase \cup {"_"}    \* /[a-zA-Z_]/
IsIdentPart(c) == IsIdentStart(c) \/ c \in Digit                \* /[a-zA-Z0-9_]/
IsDigit(c) == c \in Digit                                       \* /[0-9]/
IsNumberPart(c) == c \in Digit \cup {"."}                       \* /[0-9.]/

\* the text without its leading whitespace
TrimStart(s) ==
    LET from(kept) == IF kept = {} THEN ""
                      ELSE SubSeq(s, CHOOSE i \in kept : \A j \in kept : i <= j, Len(s))
    IN  from({i \in 1..Len(s) : ~IsSpace(CharAt(s, i))})

\* the text without its trailing whitespace
TrimEnd(s) ==
    LET upTo(kept) == IF kept = {} THEN ""
                      ELSE SubSeq(s, 1, CHOOSE i \in kept : \A j \in kept : i >= j)
    IN  upTo({i \in 1..Len(s) : ~IsSpace(CharAt(s, i))})

\* s.trim()
Trim(s) == TrimEnd(TrimStart(s))

RECURSIVE StripWhitespace(_)
\* the text with every whitespace character removed
StripWhitespace(s) ==
    IF s = "" THEN ""
    ELSE IF IsSpace(CharAt(s, 1)) THEN StripWhitespace(Tail(s))
    ELSE CharAt(s, 1) \o StripWhitespace(Tail(s))

-----------------------------------------------------------------------------
(* Lexer: CompilerService.lexicalAnalysis *)

Keywords == {"let", "const", "var", "if", "else", "while", "for", "function",
             "return", "class", "extends", "new", "this", "super", "console"}

\* the table without the assignment operator
LexOperators_WithoutAssign ==
    {"+", "-", "*", "/", "=>", "<", ">", "!", "&", "|",
     "(", ")", "{", "}", "[", "]", ";", ",", ".",
     "+=", "-=", "*=", "/=", "==", "===", "!=", "!==", ">=", "<="}

LexOperators == {"+", "-", "*", "/", "=>", "=", "<", ">", "!", "&", "|",
                 "(", ")", "{", "}", "[", "]", ";", ",", ".",
                 "+=", "-=", "*=", "/=", "==", "===", "!=", "!==", ">=", "<="}

Token(type, value, line, column) ==
    [type |-> type, value |-> value, line |-> line, column |-> column]

\* the index of the last character of the maximal run of characters that
\* starts at position i and stops before the first position in stops
RunEnd(src, i, stops) ==
    LET before(after) == IF after = {} THEN Len(src)
                         ELSE (CHOOSE j \in after : \A k \in after : j <= k) - 1
    IN  before({j \in stops : j > i})

\* the inner while loop of an identifier
IdentEnd(src, i) ==
    RunEnd(src, i, {j \in 1..Len(src) : ~IsIdentPart(CharAt(src, j))})

\* the inner while loop of a number
NumberEnd(src, i) ==
    RunEnd(src, i, {j \in 1..Len(src) : ~IsNumberPart(CharAt(src, j))})

\* the inner while loop of a string: the index of the last character before
\* the closing quote (or of the last character of an unclosed string)
StringEnd(src, i, quote) ==
    RunEnd(src, i, {j \in 1..Len(src) : CharAt(src, j) = quote})

\* an operator branch that never looks at the next character
OperatorAt_OneCharacter(src, i) == CharAt(src, i)

\* the operator branch: the operator read at position i, the character
\* and the next one when the two together are in the table
OperatorAt(src, i) ==
    IF i + 1 <= Len(src) /\ (CharAt(src, i) \o CharAt(src, i + 1)) \in LexOperators
    THEN CharAt(src, i) \o CharAt(src, i + 1)
    ELSE CharAt(src, i)

\* one iteration of the for loop of lexicalAnalysis: st.i is the 1-based
\* index of the character read, st.line and st.column the counters before
\* `column++`
ScanStep(src, st) ==
    LET i == st.i
        line == st.line
        col == st.column + 1
        char == CharAt(src, i)
        With(next, column, toks) ==
            [i |-> next, line |-> line, column |-> column, tokens |-> toks]
        Add(type, value, column) == Append(st.tokens, Token(type, value, line, column))
        Word(identifier) == IF identifier \in Keywords THEN "keyword" ELSE "identifier"
        Identifier(e) ==
            With(e + 1, col + (e - i), Add(Word(SubSeq(src, i, e)), SubSeq(src, i, e), col))
        Number(e) == With(e + 1, col + (e - i), Add("number", SubSeq(src, i, e), col))
        \* i++ skips the closing quote without counting a column
        String(e) == With(e + 2, col + (e - i), Add("string", SubSeq(src, i + 1, e), col))
        \* a two-character operator does i++ and column++ before the push
        Operator(op) ==
            With(i + Len(op), col + (Len(op) - 1), Add("operator", op, col + (Len(op) - 1)))
    IN  CASE IsSpace(char) ->
               IF char = "\n"
               THEN [i |-> i + 1, line |-> line + 1, column |-> 0, tokens |-> st.tokens]
               ELSE With(i + 1, col, st.tokens)
          [] IsIdentStart(char) -> Identifier(IdentEnd(src, i))
          [] IsDigit(char) -> Number(NumberEnd(src, i))
          [] char = "\"" \/ char = "'" -> String(StringEnd(src, i, char))
          [] char \in LexOperators -> Operator(OperatorAt(src, i))
          [] OTHER -> With(i + 1, col, st.tokens)   \* unrecognized: skipped

\* the values of the loop variables of lexicalAnalysis
ScanStates ==
    [i : Nat, line : Nat, column : Nat,
     tokens : Seq([type : STRING, value : STRING, line : Nat, column : Nat])]

\* the for loop of lexicalAnalysis: at most Len(src) iterations, the first
\* half of them and then the rest
Scan(src) ==
    LET loop[n \in Nat, st \in ScanStates] ==
            IF n = 0 \/ st.i > Len(src) THEN st
            ELSE IF n = 1 THEN ScanStep(src, st)
            ELSE loop[n - (n \div 2), loop[n \div 2, st]]
    IN  loop[Len(src), [i |-> 1, line |-> 1, column |-> 0, tokens |-> <<>>]].tokens

\* validateInput without the trim
InputIsEmpty_Untrimmed(src) == src = ""

\* validateInput: TRUE iff it throws
InputIsEmpty(src) == Trim(src) = ""

lexicalAnalysis(src) ==
    IF InputIsEmpty(src)
    THEN Throw(CompilerError("Source code cannot be empty", "validation",
                             Undefined, Undefined))
    ELSE Ok([tokens |-> Scan(src)])

-----------------------------------------------------------------------------
(* Parser: CompilerService.syntaxAnalysis.  `current` is the 0-based index  *)
(* of the source; a parse function returns Ok([node, cur]), Throw or Hang.  *)

HasTok(toks, c) == c < Len(toks)                               \* current < tokens.length
TokVal(toks, c) == IF HasTok(toks, c) THEN toks[c + 1].value ELSE Undefined  \* tokens[c]?.value
TokType(toks, c) == IF HasTok(toks, c) THEN toks[c + 1].type ELSE Undefined  \* tokens[c]?.type

\* reading a property of tokens[current] when there is no such token
ReadOfUndefined(prop) ==
    Throw(TypeError("Cannot read properties of undefined (reading '" \o prop \o "')"))

SyntaxError(message) == Throw(CompilerError(message, "syntax", Undefined, Undefined))
SyntaxErrorAt(message, tok) == Throw(CompilerError(message, "syntax", tok.line, tok.column))

Leaf(type, value) == [type |-> type, value |-> value]

\* a node whose children are in reverse order
Node_Reversed(type, value, children) ==
    [type |-> type, value |-> value,
     children |-> [i \in 1..Len(children) |-> children[Len(children) + 1 - i]]]

Node(type, value, children) == [type |-> type, value |-> value, children |-> children]
Group(type, children) == [type |-> type, children |-> children]

ParserOperators == {"+", "-", "*", "/", "<", ">", "<=", ">=", "=", "==", "===",
                    "!=", "!==", "+=", "-=", "*=", "/=", "=>"}

isOperator(value) == value \in ParserOperators

RECURSIVE SkipSemicolons(_, _)
\* while (current < tokens.length && tokens[current].value === ";") current++
SkipSemicolons(toks, c) ==
    IF HasTok(toks, c) /\ TokVal(toks, c) = ";" THEN SkipSemicolons(toks, c + 1) ELSE c

RECURSIVE ParseParams(_, _, _)
\* the parameter loop of a function or method: every token up to ")" is
\* consumed, the identifiers among them become Parameter nodes
ParseParams(toks, c, params) ==
    IF HasTok(toks, c) /\ TokVal(toks, c) # ")"
    THEN LET ps == IF TokType(toks, c) = "identifier"
                   THEN Append(params, Leaf("Parameter", TokVal(toks, c)))
                   ELSE params
             c1 == c + 1
             c2 == IF TokVal(toks, c1) = "," THEN c1 + 1 ELSE c1
         IN  ParseParams(toks, c2, ps)
    ELSE [nodes |-> params, cur |-> c]

\* this.method() of the parser whose `current` is c
RECURSIVE Parser(_, _, _)
RECURSIVE ParseArgs(_, _, _, _)
RECURSIVE ParseBlockBody(_, _, _)
RECURSIVE ParseClassBody(_, _, _, _)
RECURSIVE ParseObjectBody(_, _, _, _)
RECURSIVE ParseCallArgs(_, _, _)
RECURSIVE ParseDotArgs(_, _, _, _)
RECURSIVE ParseTail(_, _, _)
RECURSIVE ParseBinaryTail(_, _, _)

\* the argument loop shared by calls, `new` and array literals:
\*   while (current < tokens.length && tokens[current].value !== close) {
\*     args.push(parseExpression()); if (tokens[current]?.value === ",") current++; }
ParseArgs(toks, c, close, args) ==
    LET push(r) ==
            IF r.st # "ok" THEN r
            ELSE ParseArgs(toks, IF TokVal(toks, r.cur) = "," THEN r.cur + 1 ELSE r.cur,
                           close, Append(args, r.node))
    IN  IF HasTok(toks, c) /\ TokVal(toks, c) # close
        THEN push(Parser("parseExpression", toks, c))
        ELSE Ok([nodes |-> args, cur |-> c])

\* parseMethod(methodName), entered with current = c
parseMethod(toks, c, methodName) ==
    LET method(ps, b) ==
            IF b.st # "ok" THEN b
            ELSE Ok([node |-> Node("MethodDeclaration", methodName, Append(ps.nodes, b.node)),
                     cur |-> b.cur])
        body(ps, c1) ==
            IF TokVal(toks, c1) = "{" THEN method(ps, Parser("parseBlock", toks, c1))
            ELSE SyntaxError("Expected method body")
        params(ps) ==
            IF TokVal(toks, ps.cur) # ")" THEN SyntaxError("Expected closing parenthesis")
            ELSE body(ps, ps.cur + 1)
    IN  IF TokVal(toks, c) = "("
        THEN params(ParseParams(toks, c + 1, <<>>))
        ELSE body([nodes |-> <<>>, cur |-> c], c)

\* the loop of a class body; skipSemis tells the loop of parseStatement
\* (which first skips semicolons) from the one of parsePrimary.  An iteration
\* that consumes nothing leaves `current` as it was: the loop never ends.
ParseClassBody(toks, c, skipSemis, members) ==
    LET push(m) ==
            IF m.st # "ok" THEN m
            ELSE ParseClassBody(toks, m.cur, skipSemis, Append(members, m.node))
        member(c1) ==
            IF TokVal(toks, c1) = "constructor"
            THEN push(parseMethod(toks, c1 + 1, "constructor"))
            ELSE IF TokType(toks, c1) = "identifier"
            THEN push(parseMethod(toks, c1 + 1, TokVal(toks, c1)))
            ELSE IF c1 = c THEN Hang
            ELSE ParseClassBody(toks, c1, skipSemis, members)
    IN  IF HasTok(toks, c) /\ TokVal(toks, c) # "}"
        THEN member(IF skipSemis THEN SkipSemicolons(toks, c) ELSE c)
        ELSE Ok([nodes |-> members, cur |-> c])

\* a class declaration, entered at the `class` keyword token
parseClass(toks, c, skipSemis) ==
    LET token == toks[c + 1]
        class(b) ==
            IF b.st # "ok" THEN b
            ELSE IF TokVal(toks, b.cur) = "}"
            THEN Ok([node |-> Node("ClassDeclaration", TokVal(toks, c + 1), b.nodes),
                     cur |-> b.cur + 1])
            ELSE SyntaxErrorAt("Expected closing brace for class", token)
    IN  IF TokType(toks, c + 1) # "identifier"
        THEN SyntaxErrorAt("Expected class name", token)
        ELSE IF TokVal(toks, c + 2) # "{"
        THEN SyntaxErrorAt("Expected opening brace for class", token)
        ELSE class(ParseClassBody(toks, c + 3, skipSemis, <<>>))

\* the statement loop of parseBlock
ParseBlockBody(toks, c, stmts) ==
    LET push(r) ==
            IF r.st # "ok" THEN r
            ELSE ParseBlockBody(toks,
                     IF HasTok(toks, r.cur) /\ TokVal(toks, r.cur) = ";"
                     THEN r.cur + 1 ELSE r.cur,
                     Append(stmts, r.node))
        statement(c1) ==
            IF ~HasTok(toks, c1) THEN ReadOfUndefined("value")
            ELSE IF TokVal(toks, c1) = "}" THEN Ok([nodes |-> stmts, cur |-> c1])
            ELSE push(Parser("parseStatement", toks, c1))
    IN  IF HasTok(toks, c) /\ TokVal(toks, c) # "}"
        THEN statement(SkipSemicolons(toks, c))
        ELSE Ok([nodes |-> stmts, cur |-> c])

parseBlock(toks, c) ==
    LET block(b) ==
            IF b.st # "ok" THEN b
            ELSE IF TokVal(toks, b.cur) # "}" THEN SyntaxError("Expected closing brace")
            ELSE Ok([node |-> Group("Block", b.nodes), cur |-> b.cur + 1])
    IN  IF TokVal(toks, c) # "{" THEN SyntaxError("Expected opening brace")
        ELSE block(ParseBlockBody(toks, c + 1, <<>>))

\* `new X(args)`, entered at the `new` keyword token (parseStatement and
\* parsePrimary hold the same code)
parseNew(toks, c) ==
    LET token == toks[c + 1]
        new(a) ==
            IF a.st # "ok" THEN a
            ELSE IF TokVal(toks, a.cur) = ")"
            THEN Ok([node |-> Node("NewExpression", TokVal(toks, c + 1), a.nodes),
                     cur |-> a.cur + 1])
            ELSE SyntaxErrorAt("Expected constructor call", token)
    IN  IF TokType(toks, c + 1) # "identifier"
        THEN SyntaxErrorAt("Expected class name after new keyword", token)
        ELSE IF TokVal(toks, c + 2) # "("
        THEN SyntaxErrorAt("Expected constructor call", token)
        ELSE new(ParseArgs(toks, c + 3, ")", <<>>))

\* an array literal, entered at the "[" token; withPosition tells the code of
\* parsePrimary (error with line and column) from that of parseStatement
parseArray(toks, c, withPosition) ==
    LET array(a) ==
            IF a.st # "ok" THEN a
            ELSE IF TokVal(toks, a.cur) # "]"
            THEN IF withPosition
                 THEN SyntaxErrorAt("Expected closing bracket for array", toks[c + 1])
                 ELSE SyntaxError("Expected closing bracket for array")
            ELSE Ok([node |-> Group("ArrayLiteral", a.nodes), cur |-> a.cur + 1])
    IN  array(ParseArgs(toks, c + 1, "]", <<>>))

\* a function declaration, entered at the `function` keyword token;
\* singleStatementBody is true in parsePrimary, which wraps one statement
\* into an implicit block when no "{" follows
parseFunction(toks, c, singleStatementBody) ==
    LET name == TokVal(toks, c + 1)
        function(ps, b) ==
            IF b.st # "ok" THEN b
            ELSE Ok([node |-> Node("FunctionDeclaration", name, Append(ps.nodes, b.node)),
                     cur |-> b.cur])
        implicit(r) ==
            IF r.st # "ok" THEN r
            ELSE Ok([node |-> Group("Block", <<r.node>>), cur |-> r.cur])
        body(ps, c1) ==
            IF TokVal(toks, c1) = "{" THEN function(ps, Parser("parseBlock", toks, c1))
            ELSE IF ~singleStatementBody THEN SyntaxError("Expected function body")
            ELSE function(ps, implicit(Parser("parseStatement", toks, c1)))
        params(ps) ==
            IF TokVal(toks, ps.cur) # ")" THEN SyntaxError("Expected closing parenthesis")
            ELSE body(ps, ps.cur + 1)
    IN  IF TokType(toks, c + 1) # "identifier" THEN SyntaxError("Expected function name")
        ELSE IF TokVal(toks, c + 2) = "("
        THEN params(ParseParams(toks, c + 3, <<>>))
        ELSE body([nodes |-> <<>>, cur |-> c + 2], c + 2)

\* the rest of a variable declaration, entered at the identifier token
parseDeclarator(toks, c, keyword) ==
    LET id == Leaf("Identifier", TokVal(toks, c))
        declaration(kids, c1) ==
            Ok([node |-> Node("VariableDeclaration", keyword, kids),
                cur |-> IF TokVal(toks, c1) = ";" THEN c1 + 1 ELSE c1])
        initialized(init) ==
            IF init.st # "ok" THEN init ELSE declaration(<<id, init.node>>, init.cur)
    IN  IF TokVal(toks, c + 1) = "="
        THEN initialized(Parser("parseExpression", toks, c + 2))
        ELSE declaration(<<id>>, c + 1)

\* the statement that starts with an identifier: an expression, then the
\* dot-notation method call of parseStatement
parseIdentifierStatement(toks, c) ==
    LET call(l, a) ==
            IF a.st # "ok" THEN a
            ELSE IF TokVal(toks, a.cur) = ")"
            THEN Ok([node |-> Node("MethodCall", TokVal(toks, l.cur + 1),
                                   <<l.node>> \o a.nodes),
                     cur |-> a.cur + 1])
            ELSE Ok([node |-> l.node, cur |-> a.cur])
        dot(l) ==
            IF l.st # "ok" THEN l
            ELSE IF TokVal(toks, l.cur) = "." /\ TokType(toks, l.cur + 1) = "identifier"
                    /\ TokVal(toks, l.cur + 2) = "("
            THEN call(l, ParseArgs(toks, l.cur + 3, ")", <<>>))
            ELSE IF TokVal(toks, l.cur) = "." /\ TokType(toks, l.cur + 1) = "identifier"
            THEN Ok([node |-> l.node, cur |-> l.cur + 2])
            ELSE IF TokVal(toks, l.cur) = "."
            THEN Ok([node |-> l.node, cur |-> l.cur + 1])
            ELSE l
    IN  dot(Parser("parseExpression", toks, c))

parseIf(toks, c) ==
    LET ifElse(cond, then, else) ==
            IF else.st # "ok" THEN else
            ELSE Ok([node |-> Group("IfStatement", <<cond.node, then.node, else.node>>),
                     cur |-> else.cur])
        ifThen(cond, then) ==
            IF then.st # "ok" THEN then
            ELSE IF TokType(toks, then.cur) = "keyword" /\ TokVal(toks, then.cur) = "else"
            THEN ifElse(cond, then, Parser("parseBlock", toks, then.cur + 1))
            ELSE Ok([node |-> Group("IfStatement", <<cond.node, then.node>>),
                     cur |-> then.cur])
        if(cond) ==
            IF cond.st # "ok" THEN cond
            ELSE IF TokVal(toks, cond.cur) # ")"
            THEN SyntaxError("Expected closing parenthesis")
            ELSE ifThen(cond, Parser("parseBlock", toks, cond.cur + 1))
    IN  IF TokVal(toks, c + 1) # "(" THEN SyntaxError("Expected opening parenthesis after if")
        ELSE if(Parser("parseExpression", toks, c + 2))

parseReturn(toks, c) ==
    LET return(kids, c1) ==
            Ok([node |-> Group("ReturnStatement", kids),
                cur |-> IF HasTok(toks, c1) /\ TokVal(toks, c1) = ";" THEN c1 + 1 ELSE c1])
        value(e) == IF e.st # "ok" THEN e ELSE return(<<e.node>>, e.cur)
    IN  IF HasTok(toks, c + 1) /\ TokVal(toks, c + 1) # ";"
        THEN value(Parser("parseExpression", toks, c + 1))
        ELSE return(<<>>, c + 1)

\* the statement that starts with ".": `.name => expr`, `.name`, or, when no
\* identifier follows, the dot is dropped and the later tests see `token`
parseDotStatement(toks, c) ==
    LET arrow(b) ==
            IF b.st # "ok" THEN b
            ELSE Ok([node |-> Node("ArrowFunction", TokVal(toks, c + 1), <<b.node>>),
                     cur |-> b.cur])
    IN  IF TokType(toks, c + 1) = "identifier"
        THEN IF TokVal(toks, c + 2) = "=>"
             THEN arrow(Parser("parseExpression", toks, c + 3))
             ELSE Ok([node |-> Node("MethodCall", TokVal(toks, c + 1), <<>>), cur |-> c + 2])
        ELSE Parser("parseExpression", toks, c + 1)

parseStatement(toks, c) ==
    IF ~HasTok(toks, c) THEN ReadOfUndefined("type")
    ELSE
      LET token == toks[c + 1]
          isKeyword(w) == token.type = "keyword" /\ token.value = w
          isDecl == isKeyword("const") \/ isKeyword("let") \/ isKeyword("var")
      IN
      IF isKeyword("class") THEN parseClass(toks, c, TRUE)
      ELSE IF isDecl /\ TokType(toks, c + 1) = "identifier"
      THEN parseDeclarator(toks, c + 1, token.value)
      \* from here on a declaration keyword has been skipped once already
      ELSE IF token.type = "identifier" THEN parseIdentifierStatement(toks, c)
      ELSE IF isKeyword("new") THEN parseNew(toks, c)
      ELSE IF token.value = "[" THEN parseArray(toks, c, FALSE)
      ELSE IF token.value = "." THEN parseDotStatement(toks, c)
      ELSE IF isKeyword("function") THEN parseFunction(toks, c, FALSE)
      ELSE IF isKeyword("if") THEN parseIf(toks, c)
      ELSE IF isDecl
      THEN IF TokType(toks, c + 2) = "identifier"
           THEN parseDeclarator(toks, c + 2, token.value)
           ELSE SyntaxError("Expected identifier after variable declaration")
      ELSE IF isKeyword("return") THEN parseReturn(toks, c)
      ELSE Parser("parseExpression", toks, c)

\* the argument loop of a method call inside parseExpression: an
\* `identifier =>` pair opens an arrow function argument
ParseCallArgs(toks, c, args) ==
    LET push(arrow, r) ==
            IF r.st # "ok" THEN r
            ELSE ParseCallArgs(toks,
                     IF TokVal(toks, r.cur) = "," THEN r.cur + 1 ELSE r.cur,
                     Append(args, IF arrow
                                  THEN Node("ArrowFunction", TokVal(toks, c), <<r.node>>)
                                  ELSE r.node))
    IN  IF HasTok(toks, c) /\ TokVal(toks, c) # ")"
        THEN IF TokType(toks, c) = "identifier" /\ TokVal(toks, c + 1) = "=>"
             THEN push(TRUE, Parser("parseExpression", toks, c + 2))
             ELSE push(FALSE, Parser("parseExpression", toks, c))
        ELSE Ok([nodes |-> args, cur |-> c])

\* while (current < tokens.length && isOperator(tokens[current].value)) { ... }
ParseBinaryTail(toks, c, left) ==
    LET binary(r) ==
            IF r.st # "ok" THEN r
            ELSE ParseBinaryTail(toks, r.cur,
                     Node("BinaryExpression", TokVal(toks, c), <<left, r.node>>))
    IN  IF HasTok(toks, c) /\ isOperator(TokVal(toks, c))
        THEN binary(Parser("parsePrimary", toks, c + 1))
        ELSE Ok([node |-> left, cur |-> c])

\* the first loop of parseExpression: method calls and binary operators,
\* applied to `left` strictly from left to right
ParseTail(toks, c, left) ==
    LET startToken == toks[c + 3]       \* the opening parenthesis of a call
        call(a) ==
            IF a.st # "ok" THEN a
            ELSE IF TokVal(toks, a.cur) # ")"
            THEN SyntaxErrorAt("Expected closing parenthesis", startToken)
            ELSE ParseTail(toks, a.cur + 1,
                     Node("MethodCall", TokVal(toks, c + 1), <<left>> \o a.nodes))
        binary(c1, r) ==
            IF r.st # "ok" THEN r
            ELSE ParseTail(toks, r.cur,
                     Node("BinaryExpression", TokVal(toks, c1), <<left, r.node>>))
        operator(c1) ==
            IF isOperator(TokVal(toks, c1))
            THEN binary(c1, Parser("parsePrimary", toks, c1 + 1))
            ELSE Ok([node |-> left, cur |-> c1])
    IN  IF ~HasTok(toks, c) THEN Ok([node |-> left, cur |-> c])
        ELSE IF TokVal(toks, c) = "." /\ TokType(toks, c + 1) = "identifier"
                /\ TokVal(toks, c + 2) = "("
        THEN call(ParseCallArgs(toks, c + 3, <<>>))
        \* a dot, and a method name after it, are skipped when no call follows
        ELSE operator(IF TokVal(toks, c) # "." THEN c
                      ELSE IF TokType(toks, c + 1) = "identifier" THEN c + 2
                      ELSE c + 1)

parseExpression(toks, c) ==
    LET member(b) ==
            IF b.st # "ok" THEN b
            ELSE IF TokVal(toks, b.cur) = "."
            THEN IF TokType(toks, b.cur + 1) = "identifier"
                 THEN Ok([node |-> Node("MemberExpression", ".",
                              <<b.node, Leaf("Identifier", TokVal(toks, b.cur + 1))>>),
                          cur |-> b.cur + 2])
                 ELSE SyntaxError("Expected identifier after dot")
            ELSE b
        binary(t) == IF t.st # "ok" THEN t ELSE member(ParseBinaryTail(toks, t.cur, t.node))
        tail(p) == IF p.st # "ok" THEN p ELSE binary(ParseTail(toks, p.cur, p.node))
    IN  tail(Parser("parsePrimary", toks, c))

\* the property loop of an object literal.  A token that is neither "}" nor
\* an identifier is not consumed: the loop never ends.
ParseObjectBody(toks, c, token, props) ==
    LET push(v) ==
            IF v.st # "ok" THEN v
            ELSE ParseObjectBody(toks,
                     IF TokVal(toks, v.cur) = "," THEN v.cur + 1 ELSE v.cur,
                     token,
                     Append(props, Node("Property", TokVal(toks, c), <<v.node>>)))
    IN  IF HasTok(toks, c) /\ TokVal(toks, c) # "}"
        THEN IF TokType(toks, c) = "identifier"
             THEN IF TokVal(toks, c + 1) # ":"
                  THEN SyntaxErrorAt("Expected ':' after object key", token)
                  ELSE push(Parser("parseExpression", toks, c + 2))
             ELSE Hang
        ELSE Ok([nodes |-> props, cur |-> c])

\* the argument loop of the "." branch of parsePrimary: a "=>" at the head of
\* an argument ends the call with one arrow function whose parameter is the
\* argument parsed last
ParseDotArgs(toks, c, methodName, args) ==
    LET param == IF args = <<>> THEN Undefined
                 ELSE IF "value" \in DOMAIN args[Len(args)]
                 THEN args[Len(args)].value ELSE Undefined
        arrow(b) ==
            IF b.st # "ok" THEN b
            ELSE Ok([done |-> TRUE, cur |-> b.cur,
                     node |-> Node("MethodCall", methodName,
                                   <<Node("ArrowFunction", param, <<b.node>>)>>)])
        push(r) ==
            IF r.st # "ok" THEN r
            ELSE ParseDotArgs(toks,
                     IF TokVal(toks, r.cur) = "," THEN r.cur + 1 ELSE r.cur,
                     methodName, Append(args, r.node))
    IN  IF HasTok(toks, c) /\ TokVal(toks, c) # ")"
        THEN IF TokVal(toks, c) = "=>"
             THEN arrow(Parser("parseExpression", toks, c + 1))
             ELSE push(Parser("parseExpression", toks, c))
        ELSE Ok([done |-> FALSE, cur |-> c, nodes |-> args])

parsePrimary(toks, c) ==
    IF ~HasTok(toks, c) THEN ReadOfUndefined("type")
    ELSE
      LET token == toks[c + 1]
          isKeyword(w) == token.type = "keyword" /\ token.value = w
          call(a) ==
              IF a.st # "ok" THEN a
              ELSE IF TokVal(toks, a.cur) = ")"
              THEN Ok([node |-> Node("FunctionCall", token.value, a.nodes),
                       cur |-> a.cur + 1])
              ELSE SyntaxErrorAt("Expected closing parenthesis in function call", token)
          object(o) ==
              IF o.st # "ok" THEN o
              ELSE IF TokVal(toks, o.cur) # "}"
              THEN SyntaxErrorAt("Expected closing brace for object", token)
              ELSE Ok([node |-> Group("ObjectLiteral", o.nodes), cur |-> o.cur + 1])
          parenthesized(e) ==
              IF e.st # "ok" THEN e
              ELSE IF ~HasTok(toks, e.cur) \/ TokVal(toks, e.cur) # ")"
              THEN SyntaxError("Expected closing parenthesis")
              ELSE Ok([node |-> e.node, cur |-> e.cur + 1])
          methodCall(a) ==
              IF a.st # "ok" THEN a
              ELSE IF a.done THEN [st |-> "ok", node |-> a.node, cur |-> a.cur]
              ELSE IF TokVal(toks, a.cur) # ")"
              THEN SyntaxErrorAt("Expected closing parenthesis", token)
              ELSE Ok([node |-> Node("MethodCall", TokVal(toks, c + 1), a.nodes),
                       cur |-> a.cur + 1])
      IN
      IF isKeyword("function") THEN parseFunction(toks, c, TRUE)
      ELSE IF token.type = "identifier"
      THEN IF TokVal(toks, c + 1) = "("
           THEN call(ParseArgs(toks, c + 2, ")", <<>>))
           ELSE Ok([node |-> Leaf("Identifier", token.value), cur |-> c + 1])
      ELSE IF token.value = "{"
      THEN IF TokType(toks, c + 1) = "identifier" /\ TokVal(toks, c + 2) = ":"
           THEN object(ParseObjectBody(toks, c + 1, token, <<>>))
           ELSE Parser("parseBlock", toks, c)
      ELSE IF token.value = ";"
      THEN Ok([node |-> [type |-> "EmptyStatement"], cur |-> c + 1])
      ELSE IF token.type = "number"
      THEN Ok([node |-> Leaf("NumberLiteral", token.value), cur |-> c + 1])
      ELSE IF isKeyword("this")
      THEN Ok([node |-> Leaf("ThisExpression", "this"), cur |-> c + 1])
      ELSE IF isKeyword("new") THEN parseNew(toks, c)
      ELSE IF isKeyword("class") THEN parseClass(toks, c, FALSE)
      ELSE IF token.value = "("
      THEN parenthesized(Parser("parseExpression", toks, c + 1))
      ELSE IF token.value = "[" THEN parseArray(toks, c, TRUE)
      ELSE IF token.value = "." /\ TokType(toks, c + 1) = "identifier"
              /\ TokVal(toks, c + 2) = "("
      THEN methodCall(ParseDotArgs(toks, c + 3, TokVal(toks, c + 1), <<>>))
      ELSE SyntaxErrorAt("Unexpected token: " \o token.value, token)

Parser(method, toks, c) ==
    CASE method = "parseStatement" -> parseStatement(toks, c)
      [] method = "parseExpression" -> parseExpression(toks, c)
      [] method = "parsePrimary" -> parsePrimary(toks, c)
      [] method = "parseBlock" -> parseBlock(toks, c)

\* parseProgram's loop
RECURSIVE ParseProgramBody(_, _, _)
ParseProgramBody(toks, c, stmts) ==
    LET push(r) ==
            IF r.st # "ok" THEN r
            ELSE ParseProgramBody(toks, r.cur, Append(stmts, r.node))
    IN  IF HasTok(toks, c)
        THEN push(Parser("parseStatement", toks, c))
        ELSE Ok([node |-> Group("Program", stmts), cur |-> c])

\* the catch clause of syntaxAnalysis: a CompilerError is rethrown, any
\* other exception is wrapped into a CompilerError of the syntax phase
WrapSyntaxError(e) ==
    IF e.name = "CompilerError" THEN e
    ELSE CompilerError("Syntax analysis failed: " \o e.message, "syntax",
                       Undefined, Undefined)

syntaxAnalysis(toks) ==
    IF Len(toks) = 0
    THEN Throw(CompilerError("No tokens to parse", "syntax", Undefined, Undefined))
    ELSE LET program(r) == IF r.st = "error" THEN Throw(WrapSyntaxError(r.error))
                           ELSE IF r.st = "hang" THEN Hang
                           ELSE Ok([ast |-> r.node])
         IN  program(ParseProgramBody(toks, 0, <<>>))

-----------------------------------------------------------------------------
(* AST access *)

\* node.children ?? [] : a node built without a children property has none
Children(node) == IF "children" \in DOMAIN node THEN node.children ELSE <<>>

\* node.value, undefined when the node was built without it
Value(node) == IF "value" \in DOMAIN node THEN node.value ELSE Undefined

RECURSIVE Parameters(_)
\* children.filter(c => c.type === "Parameter")
Parameters(nodes) ==
    IF nodes = <<>> THEN <<>>
    ELSE (IF Head(nodes).type = "Parameter" THEN <<Head(nodes)>> ELSE <<>>)
         \o Parameters(Tail(nodes))

RECURSIVE NonParameters(_)
\* the children visited by `if (child.type !== "Parameter")`
NonParameters(nodes) ==
    IF nodes = <<>> THEN <<>>
    ELSE (IF Head(nodes).type # "Parameter" THEN <<Head(nodes)>> ELSE <<>>)
         \o NonParameters(Tail(nodes))

\* children.filter(c => c.type === "Parameter").map(p => p.value)
ParameterNames(node) ==
    LET values(ps) == [i \in 1..Len(ps) |-> Value(ps[i])]
    IN  values(Parameters(Children(node)))

-----------------------------------------------------------------------------
(* Semantic analyzer: CompilerService.semanticAnalysis.  A Map is a         *)
(* function from its keys; scopes is the stack of Maps, scopes[1] being the *)
(* Map that is also called symbolTable.                                     *)

EmptyMap == <<>>
MapHas(m, k) == k \in DOMAIN m
MapSet(m, k, v) == [x \in (DOMAIN m) \cup {k} |-> IF x = k THEN v ELSE m[x]]

\* symbolTable.set(k, v): symbolTable is the bottom of the scope stack
SetGlobal(scopes, k, v) == [scopes EXCEPT ![1] = MapSet(@, k, v)]

\* scopes[scopes.length - 1].set(k, v)
SetCurrent(scopes, k, v) == [scopes EXCEPT ![Len(scopes)] = MapSet(@, k, v)]

\* the search of `case "Identifier"`: innermost to outermost
Resolves(scopes, name) == \E i \in 1..Len(scopes) : MapHas(scopes[i], name)

RECURSIVE analyze(_, _)
RECURSIVE AnalyzeAll(_, _)

\* nodes.forEach(analyze), stopped by the first exception
AnalyzeAll(nodes, scopes) ==
    LET rest(r) == IF r.st # "ok" THEN r ELSE AnalyzeAll(Tail(nodes), r.scopes)
    IN  IF nodes = <<>> THEN Ok([scopes |-> scopes])
        ELSE rest(analyze(Head(nodes), scopes))

RECURSIVE SetParams(_, _)
\* params.forEach(param => functionScope.set(param, ...))
SetParams(m, params) ==
    IF params = <<>> THEN m
    ELSE SetParams(MapSet(m, Head(params), [type |-> "parameter", dataType |-> "any"]),
                   Tail(params))

\* a pop that leaves the stack as it is
Popped_Kept(scopes) == scopes

\* scopes.pop()
Popped(scopes) == SubSeq(scopes, 1, Len(scopes) - 1)

\* what the case of a node does to the scopes before it analyses children
Entered(node, scopes) ==
    CASE node.type = "ClassDeclaration" ->
           SetGlobal(scopes, node.value,
                     [type |-> "variable", dataType |-> "class", initialized |-> TRUE])
      [] node.type = "MethodDeclaration" ->
           IF node.value = "constructor"
           THEN SetGlobal(scopes, "this",
                          [type |-> "variable", dataType |-> "object", initialized |-> TRUE])
           ELSE SetGlobal(scopes, node.value,
                          [type |-> "function", parameters |-> ParameterNames(node),
                           returnType |-> "number"])
      [] node.type = "Program" ->
           SetGlobal(scopes, "console.log",
                     [type |-> "function", parameters |-> <<"...args">>,
                      returnType |-> "void"])
      [] node.type = "FunctionDeclaration" ->
           \* currentScope.set(functionName, ...); scopes.push(functionScope)
           Append(SetCurrent(scopes, node.value,
                             [type |-> "function", parameters |-> ParameterNames(node),
                              returnType |-> "any"]),
                  SetParams(EmptyMap, ParameterNames(node)))
      [] node.type = "Block" -> Append(scopes, EmptyMap)     \* scopes.push(blockScope)
      [] OTHER -> scopes

analyze(node, scopes) ==
    LET \* scopes.pop() after the children were analyzed
        pop(r) == IF r.st # "ok" THEN r ELSE Ok([scopes |-> Popped(r.scopes)])
    IN
    CASE node.type = "VariableDeclaration" ->
           \* the first of the two cases of the switch is the one that runs
           \* and it sets the name in symbolTable, whatever the current scope
           Ok([scopes |-> SetGlobal(scopes, node.children[1].value,
                                    [type |-> "variable",
                                     declarationType |-> node.value,
                                     initialized |-> TRUE,
                                     dataType |-> "object"])])
      [] node.type = "FunctionDeclaration" ->
           IF Value(node) \in {Undefined, ""} THEN Ok([scopes |-> scopes])
           ELSE pop(AnalyzeAll(NonParameters(Children(node)), Entered(node, scopes)))
      [] node.type = "Block" -> pop(AnalyzeAll(Children(node), Entered(node, scopes)))
      [] node.type = "Identifier" ->
           IF Value(node) \in {Undefined, ""} \/ Resolves(scopes, node.value)
           THEN Ok([scopes |-> scopes])
           ELSE Throw(CompilerError("Undefined variable: " \o node.value, "semantic",
                                    Undefined, Undefined))
      \* ClassDeclaration, MethodDeclaration, Program and the default
      [] OTHER -> AnalyzeAll(Children(node), Entered(node, scopes))

semanticAnalysis(tree) ==
    LET analyzed(r) == IF r.st # "ok" THEN r
                       ELSE Ok([ast |-> tree, symbolTable |-> r.scopes[1]])
    IN  analyzed(analyze(tree, <<EmptyMap>>))

-----------------------------------------------------------------------------
(* IR generator: CompilerService.generateIntermediateCode.  The mutable     *)
(* locals threeAddressCode, tempCounter and labelCounter are threaded       *)
(* through as g = [code, temp, label]; generate returns Ok([ret, g]), where *)
(* ret is the returned operand (Undefined after a `break`), or Throw.       *)

Emit(g, line) == [g EXCEPT !.code = Append(@, line)]

\* `t${tempCounter++}` and `L${labelCounter++}`
TempName(n) == "t" \o ToString(n)
LabelName(n) == "L" \o ToString(n)

\* tempCounter++
AfterTemp(g) == [g EXCEPT !.temp = @ + 1]

\* a label counter that is read but not incremented
AfterLabel_Stuck(g) == g

\* labelCounter++
AfterLabel(g) == [g EXCEPT !.label = @ + 1]

\* counters kept from the previous pass, as counters of the class would be
InitialCounters_Kept(old) == old

\* the values of tempCounter and labelCounter when a generation pass starts
\* (`let tempCounter = 0; let labelCounter = 0`); old holds the values the
\* counters had when the previous pass ended
InitialCounters(old) == [temp |-> 0, label |-> 0]

RECURSIVE generate(_, _)
RECURSIVE GenerateAll(_, _)
RECURSIVE GenerateArgs(_, _, _)
RECURSIVE GenerateElements(_, _, _, _)
RECURSIVE GenerateFunctionBody(_, _)
RECURSIVE EmitParams(_, _)

\* generate(nodes[i]) where nodes[i] may be undefined: `if (!node) return ""`
GenerateAt(nodes, i, g) ==
    IF i <= Len(nodes) THEN generate(nodes[i], g) ELSE Ok([ret |-> "", g |-> g])

\* nodes.forEach(child => generate(child)), stopped by the first exception
GenerateAll(nodes, g) ==
    LET rest(r) == IF r.st # "ok" THEN r ELSE GenerateAll(Tail(nodes), r.g)
    IN  IF nodes = <<>> THEN Ok([g |-> g])
        ELSE rest(generate(Head(nodes), g))

\* node.children.map(arg => generate(arg)): the operands, left to right
GenerateArgs(nodes, g, rets) ==
    LET rest(r) == IF r.st # "ok" THEN r
                   ELSE GenerateArgs(Tail(nodes), r.g, Append(rets, r.ret))
    IN  IF nodes = <<>> THEN Ok([rets |-> rets, g |-> g])
        ELSE rest(generate(Head(nodes), g))

\* the forEach of an array literal: one indexed store per element
GenerateElements(nodes, index, temp, g) ==
    LET rest(r) ==
            IF r.st # "ok" THEN r
            ELSE GenerateElements(nodes, index + 1, temp,
                     Emit(r.g, temp \o "[" \o ToString(index) \o "] = " \o Str(r.ret)))
    IN  IF index >= Len(nodes) THEN Ok([g |-> g])
        ELSE rest(generate(nodes[index + 1], g))

\* the forEach of a function declaration: `param p` for a parameter,
\* generate(child) for anything else, in child order
GenerateFunctionBody(nodes, g) ==
    LET rest(r) == IF r.st # "ok" THEN r ELSE GenerateFunctionBody(Tail(nodes), r.g)
    IN  IF nodes = <<>> THEN Ok([g |-> g])
        ELSE IF Head(nodes).type = "Parameter"
        THEN GenerateFunctionBody(Tail(nodes), Emit(g, "param " \o Str(Value(Head(nodes)))))
        ELSE rest(generate(Head(nodes), g))

\* the param lines pushed last argument first
EmitParams_Reversed(g, args) ==
    [g EXCEPT !.code = @ \o [i \in 1..Len(args) |-> "param " \o Str(args[Len(args) + 1 - i])]]

\* args.forEach(arg => push(`param ${arg}`))
EmitParams(g, args) ==
    IF args = <<>> THEN g ELSE EmitParams(Emit(g, "param " \o Str(Head(args))), Tail(args))

\* the first `case "BinaryExpression"` of the switch, the one that runs
GenerateBinary(node, g) ==
    IF Len(Children(node)) < 2 THEN ReadOfUndefined("value")
    ELSE LET t1 == TempName(g.temp)
         IN  Ok([ret |-> Undefined,
                 g |-> Emit(Emit(AfterTemp(g),
                                 t1 \o " = this.value " \o Str(Value(node)) \o " "
                                 \o Str(Value(node.children[2]))),
                            "this.value = " \o t1)])

\* the first `case "ReturnStatement"`
GenerateReturn(node, g) ==
    IF Len(Children(node)) = 0 THEN ReadOfUndefined("type")
    ELSE IF node.children[1].type = "ThisExpression"
    THEN Ok([ret |-> Undefined, g |-> Emit(g, "return this.value")])
    ELSE LET return(r) ==
                 IF r.st # "ok" THEN r
                 ELSE Ok([ret |-> Undefined, g |-> Emit(r.g, "return " \o Str(r.ret))])
         IN  return(generate(node.children[1], g))

\* the first `case "VariableDeclaration"`
GenerateDeclaration(node, g) ==
    IF Len(Children(node)) < 2 THEN ReadOfUndefined("value")
    ELSE Ok([ret |-> Undefined,
             g |-> Emit(g, Str(Value(node.children[1])) \o " = new "
                           \o Str(Value(node.children[2])) \o "()")])

\* the first `case "MethodCall"`
GenerateMethodCall(node, g) ==
    IF Len(Children(node)) = 0 THEN ReadOfUndefined("value")
    ELSE LET kids == node.children
             args == [i \in 1..(Len(kids) - 1) |-> Value(kids[i + 1])]
         IN  Ok([ret |-> Undefined,
                 g |-> Emit(g, Str(Value(kids[1])) \o "." \o Str(Value(node))
                               \o "(" \o Join(args, ", ") \o ")")])

\* the three lines with the label line put first
EmitJumps_LabelFirst(g, conditionResult, labelTrue, labelEnd) ==
    Emit(Emit(Emit(g, labelTrue \o ":"),
              "if " \o conditionResult \o " goto " \o labelTrue),
         "goto " \o labelEnd)

\* the three pushes of an if statement before its then branch
EmitJumps(g, conditionResult, labelTrue, labelEnd) ==
    Emit(Emit(Emit(g, "if " \o conditionResult \o " goto " \o labelTrue),
              "goto " \o labelEnd),
         labelTrue \o ":")

GenerateIf(node, g) ==
    LET kids == Children(node)
        labelTrue == LabelName(g.label)
        labelEnd == LabelName(AfterLabel(g).label)
        end(t) == IF t.st # "ok" THEN t
                  ELSE Ok([ret |-> "", g |-> Emit(t.g, labelEnd \o ":")])
        branch(c) ==
            IF c.st # "ok" THEN c
            ELSE end(GenerateAt(kids, 2, EmitJumps(c.g, Str(c.ret), labelTrue, labelEnd)))
    IN  IF Len(kids) = 0 THEN Ok([ret |-> "", g |-> AfterLabel(AfterLabel(g))])
        ELSE branch(generate(kids[1], AfterLabel(AfterLabel(g))))

GenerateAssignment(node, g) ==
    LET left == IF Value(node.children[1]) \in {Undefined, ""} THEN ""
                ELSE node.children[1].value
        compound(r, temp) ==
            Ok([ret |-> left,
                g |-> Emit(Emit(AfterTemp(r.g),
                                temp \o " = " \o left \o " "
                                \o CharAt(node.value, 1) \o " " \o Str(r.ret)),
                           left \o " = " \o temp)])
        assign(r) ==
            IF r.st # "ok" THEN r
            ELSE IF node.value = "="
            THEN Ok([ret |-> left, g |-> Emit(r.g, left \o " = " \o Str(r.ret))])
            ELSE compound(r, TempName(r.g.temp))
    IN  IF Len(Children(node)) = 2 /\ Value(node) \notin {Undefined, ""}
        THEN assign(generate(node.children[2], g))
        ELSE Ok([ret |-> "", g |-> g])

generate(node, g) ==
    LET \* the statements of a body were generated: ret is what is returned
        body(r, ret) == IF r.st # "ok" THEN r ELSE Ok([ret |-> ret, g |-> r.g])
        closed(r) == IF r.st # "ok" THEN r ELSE Ok([ret |-> Undefined, g |-> Emit(r.g, "}")])
        array(temp) ==
            body(GenerateElements(Children(node), 0, temp,
                                  Emit(AfterTemp(g), temp \o " = []")),
                 temp)
        arrow(b) ==
            IF b.st # "ok" THEN b
            ELSE Ok([ret |-> TempName(b.g.temp),
                     g |-> Emit(AfterTemp(b.g),
                                TempName(b.g.temp) \o " = function(" \o Str(Value(node))
                                \o ") { return " \o Str(b.ret) \o "; }")])
        call(a) ==
            IF a.st # "ok" THEN a
            ELSE Ok([ret |-> TempName(a.g.temp),
                     g |-> Emit(EmitParams(AfterTemp(a.g), a.rets),
                                TempName(a.g.temp) \o " = call " \o node.value
                                \o ", " \o ToString(Len(a.rets)))])
    IN
    CASE node.type = "ClassDeclaration" ->
           closed(GenerateAll(Children(node), Emit(g, "class " \o Str(Value(node)) \o " {")))
      [] node.type = "MethodDeclaration" ->
           closed(GenerateAll(NonParameters(Children(node)),
                              IF Value(node) = "constructor"
                              THEN Emit(Emit(g, "function constructor() {"), "this.value = 0")
                              ELSE Emit(g, "function " \o Str(Value(node)) \o "("
                                           \o Join(ParameterNames(node), ", ") \o ") {")))
      [] node.type = "BinaryExpression" -> GenerateBinary(node, g)
      [] node.type = "ReturnStatement" -> GenerateReturn(node, g)
      [] node.type = "VariableDeclaration" -> GenerateDeclaration(node, g)
      [] node.type = "MethodCall" -> GenerateMethodCall(node, g)
      [] node.type \in {"Program", "Block"} -> body(GenerateAll(Children(node), g), "")
      [] node.type = "ArrayLiteral" -> array(TempName(g.temp))
      [] node.type = "ArrowFunction" -> arrow(GenerateAt(Children(node), 1, g))
      [] node.type = "FunctionDeclaration" ->
           IF Value(node) \in {Undefined, ""} THEN Ok([ret |-> "", g |-> g])
           ELSE body(GenerateFunctionBody(Children(node),
                                          Emit(g, "function " \o node.value \o ":")),
                     "")
      [] node.type = "FunctionCall" ->
           IF Value(node) \in {Undefined, ""} THEN Ok([ret |-> "", g |-> g])
           ELSE call(GenerateArgs(Children(node), g, <<>>))
      [] node.type = "ExpressionStatement" -> body(GenerateAt(Children(node), 1, g), "")
      [] node.type = "IfStatement" -> GenerateIf(node, g)
      [] node.type = "AssignmentExpression" -> GenerateAssignment(node, g)
      [] node.type = "NumberLiteral" ->
           Ok([ret |-> IF Value(node) \in {Undefined, ""} THEN "0" ELSE node.value,
               g |-> g])
      [] node.type = "Identifier" ->
           Ok([ret |-> IF Value(node) \in {Undefined, ""} THEN "" ELSE node.value,
               g |-> g])
      [] OTHER -> Ok([ret |-> "", g |-> g])

\* generateIntermediateCode(ast); old = the counters left by the previous call
generateIntermediateCode(tree, old) ==
    LET start == InitialCounters(old)
        generated(r) ==
            IF r.st # "ok" THEN r
            ELSE Ok([irCode |-> r.g.code, temp |-> r.g.temp, label |-> r.g.label])
    IN  generated(generate(tree, [code |-> <<>>, temp |-> start.temp, label |-> start.label]))

-----------------------------------------------------------------------------
(* Numbers: Number(s), isNaN, the four arithmetic operators and String(n).  *)
(* A finite number is a fraction [n, d] in lowest terms with d > 0.  The    *)
(* fractions whose denominator is a power of two are the ones a double      *)
(* holds exactly; arithmetic that leaves them is reported as "inexact" and  *)
(* is kept out of the inputs the specifications draw.                       *)

DigitValue == ("0" :> 0) @@ ("1" :> 1) @@ ("2" :> 2) @@ ("3" :> 3) @@ ("4" :> 4)
              @@ ("5" :> 5) @@ ("6" :> 6) @@ ("7" :> 7) @@ ("8" :> 8) @@ ("9" :> 9)

RECURSIVE AllDigits(_)
AllDigits(s) == s = "" \/ (IsDigit(CharAt(s, 1)) /\ AllDigits(Tail(s)))

RECURSIVE DigitsValue(_, _)
\* the integer written by a string of digits, read after the value acc
DigitsValue(s, acc) ==
    IF s = "" THEN acc ELSE DigitsValue(Tail(s), 10 * acc + DigitValue[CharAt(s, 1)])

RECURSIVE Power(_, _)
Power(b, e) == IF e = 0 THEN 1 ELSE b * Power(b, e - 1)

Abs(n) == IF n < 0 THEN -n ELSE n

RECURSIVE Gcd(_, _)
Gcd(a, b) == IF b = 0 THEN a ELSE Gcd(b, a % b)

\* the fraction n/d (d # 0) in lowest terms
Fraction(n, d) ==
    LET g == Gcd(Abs(n), Abs(d))
        sign == IF d < 0 THEN -1 ELSE 1
    IN  [kind |-> "finite", n |-> sign * (n \div g), d |-> sign * (d \div g)]

NaN == [kind |-> "NaN"]
Infinity(negative) == [kind |-> "Infinity", negative |-> negative]

\* the number written as whole.frac with this sign, NaN when it is no number
Decimal(sign, whole, frac) ==
    IF AllDigits(whole) /\ AllDigits(frac) /\ (whole \o frac) # ""
    THEN Fraction(sign * DigitsValue(whole \o frac, 0), Power(10, Len(frac)))
    ELSE NaN

\* the number written by body, a numeral without its sign, point being the
\* position of its first "." (0 when it has none)
Unsigned(negative, body, point) ==
    IF body = "Infinity" THEN Infinity(negative)
    ELSE Decimal(IF negative THEN -1 ELSE 1,
                 IF point = 0 THEN body ELSE SubSeq(body, 1, point - 1),
                 IF point = 0 THEN "" ELSE SubSeq(body, point + 1, Len(body)))

\* the number written by a trimmed, non-empty text
Signed(t) ==
    IF StartsWith(t, "-") \/ StartsWith(t, "+")
    THEN Unsigned(StartsWith(t, "-"), Tail(t), IndexOf(Tail(t), "."))
    ELSE Unsigned(FALSE, t, IndexOf(t, "."))

\* Number(s) for the decimal notation: "", digits, digits with one point
ToNumber(s) ==
    IF s = Undefined THEN NaN
    ELSE IF Trim(s) = "" THEN Fraction(0, 1)
    ELSE Signed(Trim(s))

\* isNaN(Number(s))
IsNaN(s) == ToNumber(s).kind = "NaN"

RECURSIVE IsPowerOfTwo(_)
IsPowerOfTwo(d) == d = 1 \/ (d % 2 = 0 /\ IsPowerOfTwo(d \div 2))

RECURSIVE Log2(_)
Log2(d) == IF d = 1 THEN 0 ELSE 1 + Log2(d \div 2)

\* a number a double holds exactly
Exact(x) == x.kind # "finite" \/ IsPowerOfTwo(x.d)

RECURSIVE PadLeft(_, _)
PadLeft(s, width) == IF Len(s) >= width THEN s ELSE PadLeft("0" \o s, width)

\* String(x) for an exact number
NumberToString(x) ==
    IF x.kind = "NaN" THEN "NaN"
    ELSE IF x.kind = "Infinity" THEN (IF x.negative THEN "-Infinity" ELSE "Infinity")
    ELSE IF x.d = 1 THEN ToString(x.n)
    ELSE LET k == Log2(x.d)
             a == Abs(x.n)
         IN  (IF x.n < 0 THEN "-" ELSE "") \o ToString(a \div x.d) \o "."
             \o PadLeft(ToString((a % x.d) * Power(5, k)), k)

\* left op right for op in + - * /; "inexact" when a double would round
Arith(op, x, y) ==
    LET rounded(r) == IF Exact(r) THEN r ELSE [kind |-> "inexact"]
    IN  IF x.kind # "finite" \/ y.kind # "finite" \/ ~Exact(x) \/ ~Exact(y)
        THEN [kind |-> "inexact"]
        ELSE rounded(CASE op = "+" -> Fraction(x.n * y.d + y.n * x.d, x.d * y.d)
                       [] op = "-" -> Fraction(x.n * y.d - y.n * x.d, x.d * y.d)
                       [] op = "*" -> Fraction(x.n * y.n, x.d * y.d)
                       [] op = "/" -> IF y.n # 0 THEN Fraction(x.n * y.d, x.d * y.n)
                                      ELSE IF x.n = 0 THEN NaN
                                      ELSE Infinity(x.n < 0))

-----------------------------------------------------------------------------
(* Optimizer: CompilerService.optimize.  o = [optimized, variables] are the *)
(* locals of the first loop; variables is the Map of known constants.       *)

MapGet(m, k) == IF MapHas(m, k) THEN m[k] ELSE Undefined

\* variables.get(name) || name : an empty known value is falsy
KnownOr(variables, name) ==
    IF MapGet(variables, name) \in {Undefined, ""} THEN name ELSE variables[name]

Push(o, line) == [o EXCEPT !.optimized = Append(@, line)]

\* const [result, operation] = line.split(" = ")
Destructure(line) ==
    LET pair(parts) == [result |-> parts[1],
                        operation |-> IF Len(parts) >= 2 THEN parts[2] ELSE Undefined]
    IN  pair(Split(line, " = "))

\* the first `if (line.includes("="))` of the loop body ("Handle assignments
\* and method calls"): what it appends to optimized
FirstAssignmentBranch(line, o) ==
    LET d == Destructure(line)
        parts == Split(d.operation, " ")
    IN  IF Includes(line, "=")
        THEN IF d.operation = Undefined THEN ReadOfUndefined("includes")
             ELSE IF Includes(d.operation, "new") THEN Ok([o |-> Push(o, line)])
             ELSE IF Len(parts) = 3 /\ ~IsNaN(parts[3])
             THEN Ok([o |-> Push(o, d.result \o " = " \o parts[1] \o " "
                                    \o parts[2] \o " " \o parts[3])])
             ELSE Ok([o |-> o])
        ELSE IF Includes(line, ".") THEN Ok([o |-> Push(o, line)])
        ELSE Ok([o |-> o])

\* a plain assignment `x = 5` or `x = y` (the operation holds no space)
SimpleAssignment(line, resultVar, operation, o) ==
    LET value == Trim(operation)
        knownValue == MapGet(o.variables, value)
        assign(v) == [optimized |-> Append(o.optimized, resultVar \o " = " \o v),
                      variables |-> MapSet(o.variables, resultVar, v)]
    IN  IF ~IsNaN(value) THEN assign(value)
        ELSE IF knownValue \notin {Undefined, ""} THEN assign(knownValue)
        ELSE Push(o, line)

\* the value computed by the switch on op, null for any other operator
FoldedValue(op, leftVal, rightVal) ==
    IF op \in {"+", "-", "*", "/"}
    THEN Arith(op, ToNumber(leftVal), ToNumber(rightVal))
    ELSE [kind |-> "null"]

\* an arithmetic line `t0 = x + y` (the operation has three parts)
ArithmeticAssignment(line, resultVar, parts, o) ==
    LET left == Trim(parts[1])
        op == Trim(parts[2])
        right == Trim(parts[3])
        leftVal == KnownOr(o.variables, left)
        rightVal == KnownOr(o.variables, right)
        assign(v) == Ok([o |-> [optimized |-> Append(o.optimized, resultVar \o " = " \o v),
                                variables |-> MapSet(o.variables, resultVar, v)]])
        \* `if (value !== null)` failed, or an operand is not a number
        unfolded ==
            IF leftVal # left \/ rightVal # right
            THEN Ok([o |-> Push(o, resultVar \o " = " \o leftVal \o " " \o op
                                   \o " " \o rightVal)])
            ELSE Ok([o |-> Push(o, line)])
        folded(value) ==
            IF value.kind = "null" THEN unfolded
            ELSE IF value.kind = "inexact" THEN [st |-> "inexact"]
            ELSE assign(NumberToString(value))
    IN  IF ~IsNaN(leftVal) /\ ~IsNaN(rightVal)
        THEN folded(FoldedValue(op, leftVal, rightVal))
        ELSE unfolded

\* the second `if (line.includes("="))` ("Handle assignments and
\* expressions") and the push that follows it
SecondAssignmentBranch(line, o) ==
    LET d == Destructure(line)
        resultVar == Trim(d.result)
        parts == Split(d.operation, " ")
    IN  IF Includes(line, "=")
        THEN IF d.operation = Undefined THEN ReadOfUndefined("includes")
             ELSE IF ~Includes(d.operation, " ")
             THEN Ok([o |-> SimpleAssignment(line, resultVar, d.operation, o)])
             ELSE IF Len(parts) = 3
             THEN ArithmeticAssignment(line, resultVar, parts, o)
             ELSE Ok([o |-> Push(o, line)])
        ELSE Ok([o |-> Push(o, line)])

\* the loop body after its first `if (line.includes("="))`: the lines that
\* are pushed as they are, and the second `if (line.includes("="))`
SecondHalf(line, first) ==
    IF first.st # "ok" THEN first
    ELSE IF StartsWith(line, "function") \/ StartsWith(line, "param")
            \/ Includes(line, "call") \/ StartsWith(line, "return")
    THEN Ok([o |-> Push(first.o, line)])
    ELSE SecondAssignmentBranch(line, first.o)

\* one iteration of `for (const line of intermediateCode)`
OptimizeLine(line, o) ==
    IF Includes(line, "class") \/ Includes(line, "function") \/ Includes(line, "return")
    THEN Ok([o |-> Push(o, line)])
    ELSE SecondHalf(line, FirstAssignmentBranch(line, o))

RECURSIVE OptimizeLines(_, _, _, _)
\* the first loop over lines[lo..hi]: the first half of the lines, then the
\* rest, stopping at a line that throws
OptimizeLines(lines, lo, hi, o) ==
    IF lo > hi THEN Ok([o |-> o])
    ELSE IF lo = hi THEN OptimizeLine(lines[lo], o)
    ELSE LET mid == (lo + hi) \div 2
             r == OptimizeLines(lines, lo, mid, o)
         IN  IF r.st # "ok" THEN r ELSE OptimizeLines(lines, mid + 1, hi, r.o)

\* one iteration of the second loop: an assignment whose `result=operation`
\* key was seen is dropped
RemoveDuplicate(line, d) ==
    LET unseen(key) ==
            IF key \in d.seen THEN Ok([d |-> d])
            ELSE Ok([d |-> [seen |-> d.seen \cup {key}, final |-> Append(d.final, line)]])
        assignment(parts) ==
            IF parts.operation = Undefined THEN ReadOfUndefined("trim")
            ELSE unseen(Trim(parts.result) \o "=" \o Trim(parts.operation))
    IN  IF ~Includes(line, "=")
        THEN Ok([d |-> [d EXCEPT !.final = Append(@, line)]])
        ELSE assignment(Destructure(line))

RECURSIVE RemoveDuplicates(_, _, _, _)
\* the second loop over lines[lo..hi]
RemoveDuplicates(lines, lo, hi, d) ==
    IF lo > hi THEN Ok([d |-> d])
    ELSE IF lo = hi THEN RemoveDuplicate(lines[lo], d)
    ELSE LET mid == (lo + hi) \div 2
             r == RemoveDuplicates(lines, lo, mid, d)
         IN  IF r.st # "ok" THEN r ELSE RemoveDuplicates(lines, mid + 1, hi, r.d)

optimize(intermediateCode) ==
    LET unique(u) == IF u.st # "ok" THEN u ELSE Ok([optimizedCode |-> u.d.final])
        optimized(r) ==
            IF r.st # "ok" THEN r
            ELSE unique(RemoveDuplicates(r.o.optimized, 1, Len(r.o.optimized),
                                         [seen |-> {}, final |-> <<>>]))
    IN  optimized(OptimizeLines(intermediateCode, 1, Len(intermediateCode),
                                [optimized |-> <<>>, variables |-> EmptyMap]))

-----------------------------------------------------------------------------
(* Code generator: CompilerService.generateTargetCode.  c = [target,        *)
(* currentFunction, currentClass] are its locals.                           *)

\* s.slice(from, to) with 0-based, possibly negative, indices
Slice(s, from, to) ==
    LET clamp(i) == IF i < 0 THEN (IF Len(s) + i < 0 THEN 0 ELSE Len(s) + i)
                    ELSE IF i > Len(s) THEN Len(s) ELSE i
    IN  SubSeq(s, clamp(from) + 1, clamp(to))

\* s.slice(from)
SliceFrom(s, from) == Slice(s, from, Len(s))

\* s.indexOf(p), 0-based, -1 when absent
JsIndexOf(s, p) == IndexOf(s, p) - 1

\* s.replace(p, ""): the first occurrence of p is removed
RemoveFirst(s, p) ==
    LET without(k) == IF k = 0 THEN s
                      ELSE SubSeq(s, 1, k - 1) \o SubSeq(s, k + Len(p), Len(s))
    IN  without(IndexOf(s, p))

RECURSIVE LeadingDigits(_)
LeadingDigits(s) ==
    IF s # "" /\ IsDigit(CharAt(s, 1)) THEN CharAt(s, 1) \o LeadingDigits(Tail(s)) ELSE ""

\* parseInt(s) for an unsigned decimal; -1 stands for NaN
ParseInt(s) ==
    LET value(digits) == IF digits = "" THEN -1 ELSE DigitsValue(digits, 0)
    IN  IF s = Undefined THEN -1 ELSE value(LeadingDigits(TrimStart(s)))

\* `${v}` for a value that may be null
StrNull(v) == IF v = Null THEN "null" ELSE Str(v)

Out(c, line) == [c EXCEPT !.target = Append(@, line)]

RECURSIVE OutAll(_, _)
OutAll(c, lines) == IF lines = <<>> THEN c ELSE OutAll(Out(c, Head(lines)), Tail(lines))

Prologue == <<"  push rbp", "  mov rbp, rsp">>
Epilogue == <<"  mov rsp, rbp", "  pop rbp", "  ret">>

\* if (line.includes("this.value")) { if (line.includes("=")) { ... } }
ThisValueStore(line, c) ==
    IF Includes(line, "this.value") /\ Includes(line, "=")
    THEN OutAll(c, <<"  mov eax, " \o Str(Destructure(line).operation),
                     "  mov [" \o StrNull(c.currentClass) \o "_value], eax">>)
    ELSE c

\* if (line.startsWith("return")) { ... }  (no continue follows it)
ReturnOfMethod(line, c) ==
    IF StartsWith(line, "return")
    THEN OutAll(c, <<"  mov eax, [${currentClass}_value]">> \o Epilogue)
    ELSE c

\* the generic `dest = src` instruction at the end of the loop body
TargetAssignment(line, c) ==
    LET apply(op, right) ==
            CASE op = "+" -> <<"  add rax, " \o Str(right)>>
              [] op = "-" -> <<"  sub rax, " \o Str(right)>>
              [] op = "*" -> <<"  imul rax, " \o Str(right)>>
              [] op = "/" -> <<"  xor rdx, rdx", "  div " \o Str(right)>>
              [] OTHER -> <<>>
        binary(result, parts) ==
            Ok([c |-> OutAll(c, <<"  mov rax, " \o parts[1]>>
                                \o apply(IF Len(parts) >= 2 THEN parts[2] ELSE Undefined,
                                         IF Len(parts) >= 3 THEN parts[3] ELSE Undefined)
                                \o <<"  mov " \o result \o ", rax">>)])
        assignment(d) ==
            IF d.operation = Undefined THEN ReadOfUndefined("includes")
            ELSE IF Includes(d.operation, " ")
            THEN binary(d.result, Split(d.operation, " "))
            ELSE Ok([c |-> Out(c, "  mov " \o d.result \o ", " \o d.operation)])
    IN  assignment(Destructure(line))

\* the call instruction: `${result} = call ${func}, ${argCount}`
TargetCall(line, c) ==
    LET cleanup(argCount) ==
            IF argCount > 0 THEN <<"  add rsp, " \o ToString(argCount * 8)>> ELSE <<>>
        call(result, info) ==
            Ok([c |-> OutAll(c, <<"  call " \o info[1], "  mov " \o result \o ", rax">>
                                \o cleanup(ParseInt(IF Len(info) >= 2 THEN info[2]
                                                    ELSE Undefined)))])
        assignment(parts) ==
            IF Len(parts) < 2 THEN ReadOfUndefined("split")
            ELSE call(parts[1], Split(parts[2], ", "))
    IN  assignment(Split(line, " = call "))

\* one iteration of `for (const line of intermediateCode)`
TargetLine(line, c) ==
    LET class(words) ==
            IF Len(words) < 2 THEN ReadOfUndefined("replace")
            ELSE Ok([c |-> OutAll([c EXCEPT !.currentClass = RemoveFirst(words[2], "{")],
                                  <<"section .data", RemoveFirst(words[2], "{") \o "_value dd 0",
                                    "section .text">>)])
        function(words) ==
            IF Len(words) < 2 THEN ReadOfUndefined("split")
            ELSE Ok([c |-> OutAll(c, <<StrNull(c.currentClass) \o "_"
                                       \o Split(words[2], "(")[1] \o ":">>
                                     \o Prologue)])
        param(c1, name) ==
            Ok([c |-> Out(Out(c1, "  push " \o name),
                          "  mov " \o name \o ", [rbp + "
                          \o ToString((Len(c1.target) + 1) * 8) \o "]")])
        return(c1, returnValue) ==
            Ok([c |-> OutAll(c1, (IF returnValue # ""
                                  THEN <<"  mov rax, " \o returnValue>> ELSE <<>>)
                                 \o Epilogue)])
        instruction(c1) ==
            IF Includes(line, "call") THEN TargetCall(line, c1)
            ELSE IF StartsWith(line, "param ") THEN param(c1, SliceFrom(line, 6))
            ELSE IF StartsWith(line, "return ") THEN return(c1, SliceFrom(line, 7))
            ELSE IF EndsWith(line, ":")
            THEN IF StartsWith(line, "func_")
                 THEN Ok([c |-> OutAll([c1 EXCEPT !.currentFunction = Slice(line, 5, -1)],
                                       <<line>> \o Prologue)])
                 ELSE Ok([c |-> Out(c1, line)])
            ELSE IF line = "return"
            THEN Ok([c |-> OutAll([c1 EXCEPT !.currentFunction = Null], Epilogue)])
            ELSE IF StartsWith(line, "if ")
            THEN Ok([c |-> OutAll(c1,
                        <<"  cmp " \o Slice(line, 3, JsIndexOf(line, " goto")) \o ", 0",
                          "  jne " \o SliceFrom(line, JsIndexOf(line, "goto ") + 5)>>)])
            ELSE IF StartsWith(line, "goto ")
            THEN Ok([c |-> Out(c1, "  jmp " \o SliceFrom(line, 5))])
            ELSE IF Includes(line, "=") THEN TargetAssignment(line, c1)
            ELSE Ok([c |-> c1])
    IN  IF StartsWith(line, "class") THEN class(Split(line, " "))
        ELSE IF StartsWith(line, "function") THEN function(Split(line, " "))
        ELSE instruction(ReturnOfMethod(line, ThisValueStore(line, c)))

RECURSIVE TargetLines(_, _, _, _)
\* the loop over intermediateCode[lo..hi]: the first half of the lines, then
\* the rest, stopping at a line that throws
TargetLines(lines, lo, hi, c) ==
    IF lo > hi THEN Ok([c |-> c])
    ELSE IF lo = hi THEN TargetLine(lines[lo], c)
    ELSE LET mid == (lo + hi) \div 2
             r == TargetLines(lines, lo, mid, c)
         IN  IF r.st # "ok" THEN r ELSE TargetLines(lines, mid + 1, hi, r.c)

generateTargetCode(intermediateCode) ==
    LET generated(r) == IF r.st # "ok" THEN r ELSE Ok([targetCode |-> r.c.target])
    IN  generated(TargetLines(intermediateCode, 1, Len(intermediateCode),
                              [target |-> <<>>, currentFunction |-> Null,
                               currentClass |-> Null]))

-----------------------------------------------------------------------------
(* A run: the service calls one handler makes, in order, each on the output *)
(* of an earlier one, until the first that does not return.                 *)

NoAst == [type |-> "<none>"]

\* steps[i].id of CompilerStepVisualizer (0-based i)
StepIds == <<"lexical", "syntax", "semantic", "intermediate", "optimization", "codegen">>

\* the calls processStep makes for the step with this id: the first two
\* before the switch, the others in the case of the switch
CallsOfStep(id) ==
    <<"lexicalAnalysis", "syntaxAnalysis">> \o
    (CASE id = "semantic" -> <<"semanticAnalysis">>
       [] id = "intermediate" -> <<"generateIntermediateCode">>
       [] id = "optimization" -> <<"generateIntermediateCode", "optimize">>
       [] id = "codegen" -> <<"generateIntermediateCode", "optimize", "generateTargetCode">>
       [] OTHER -> <<>>)

\* the locals of a run before its first call
StartOfRun(code, counters) ==
    [input |-> code, attempted |-> <<>>, outcome |-> "ok", error |-> NoError,
     tokens |-> <<>>, ast |-> NoAst, symbolTable |-> EmptyMap, irCode |-> <<>>,
     optimizedCode |-> <<>>, targetCode |-> <<>>,
     temp |-> counters.temp, label |-> counters.label]

\* one service call on the locals r
Call(name, r) ==
    CASE name = "lexicalAnalysis" -> lexicalAnalysis(r.input)
      [] name = "syntaxAnalysis" -> syntaxAnalysis(r.tokens)
      [] name = "semanticAnalysis" -> semanticAnalysis(r.ast)
      [] name = "generateIntermediateCode" ->
             generateIntermediateCode(r.ast, [temp |-> r.temp, label |-> r.label])
      [] name = "optimize" -> optimize(r.irCode)
      [] name = "generateTargetCode" -> generateTargetCode(r.optimizedCode)

\* the locals after a call that returned res
Store(name, res, r) ==
    CASE name = "lexicalAnalysis" -> [r EXCEPT !.tokens = res.tokens]
      [] name = "syntaxAnalysis" -> [r EXCEPT !.ast = res.ast]
      [] name = "semanticAnalysis" -> [r EXCEPT !.symbolTable = res.symbolTable]
      [] name = "generateIntermediateCode" ->
             [r EXCEPT !.irCode = res.irCode, !.temp = res.temp, !.label = res.label]
      [] name = "optimize" -> [r EXCEPT !.optimizedCode = res.optimizedCode]
      [] name = "generateTargetCode" -> [r EXCEPT !.targetCode = res.targetCode]

RECURSIVE Execute(_, _)
\* the calls of a try block: an exception ends the run in the catch clause,
\* a call that never returns ends it for good
Execute(calls, r) ==
    LET called(name, r1, res) ==
            IF res.st = "ok" THEN Execute(Tail(calls), Store(name, res, r1))
            ELSE [r1 EXCEPT !.outcome = res.st,
                            !.error = IF res.st = "error" THEN res.error ELSE NoError]
    IN  IF calls = <<>> THEN r
        ELSE called(Head(calls), [r EXCEPT !.attempted = Append(@, Head(calls))],
                    Call(Head(calls), r))

\* processStep(step) on the source text code
processStep(code, step, counters) ==
    Execute(CallsOfStep(StepIds[step + 1]), StartOfRun(Trim(code), counters))

\* the state after a run that ended with the locals r
Ran(r) ==
    /\ tokens' = r.tokens
    /\ ast' = r.ast
    /\ symbolTable' = r.symbolTable
    /\ irCode' = r.irCode
    /\ optimizedCode' = r.optimizedCode
    /\ targetCode' = r.targetCode
    /\ outcome' = r.outcome
    /\ error' = r.error
    /\ attempted' = r.attempted
    /\ tempCounter' = r.temp
    /\ labelCounter' = r.label
    /\ UNCHANGED <<currentPhase, activePhase, showPhases>>

\* a handler can run only when no earlier one hangs the (single) thread,
\* and the inputs of the model stay within exact arithmetic
Runnable(r) == outcome # "hang" /\ r.outcome # "inexact"

-----------------------------------------------------------------------------
(* Specification Spec: CompilerStepVisualizer driven by its props.          *)

\* the statements a source text is made of, one per line
Statements ==
    {"let x = 42;", "let x = 2 + 3;", "let x;", "y;", "{ let y = 1; }",
     "if (x > 0) { f(x, 3); }", "return;", "foo(1, 2"}

Lines(code) == IF code = "" THEN <<>> ELSE Split(code, "\n")

Init ==
    /\ sourceCode = ""
    /\ currentStep = 0
    /\ tokens = <<>>
    /\ ast = NoAst
    /\ symbolTable = EmptyMap
    /\ irCode = <<>>
    /\ optimizedCode = <<>>
    /\ targetCode = <<>>
    /\ outcome = "idle"
    /\ error = NoError
    /\ attempted = <<>>
    /\ tempCounter = 0
    /\ labelCounter = 0
    /\ currentPhase = 0
    /\ activePhase = "lexical"
    /\ showPhases = FALSE

\* the prop sourceCode changes by one more line; the effect on
\* [currentStep, sourceCode, processStep] runs processStep(currentStep)
SourceCodeChange(stmt) ==
    LET code == IF sourceCode = "" THEN stmt ELSE sourceCode \o "\n" \o stmt
        Processed(r) ==
            /\ Runnable(r)
            /\ sourceCode' = code
            /\ UNCHANGED currentStep
            /\ Ran(r)
    IN  /\ Len(Lines(sourceCode)) < MaxStmts
        /\ Processed(processStep(code, currentStep,
                                 [temp |-> tempCounter, label |-> labelCounter]))

\* the editor is emptied
SourceCodeClear ==
    LET Processed(r) ==
            /\ Runnable(r)
            /\ sourceCode' = ""
            /\ UNCHANGED currentStep
            /\ Ran(r)
    IN  /\ sourceCode # ""
        /\ Processed(processStep("", currentStep,
                                 [temp |-> tempCounter, label |-> labelCounter]))

\* the effect on isRunning: setCurrentStep(0); processStep(0)
StartRun ==
    LET Processed(r) ==
            /\ Runnable(r)
            /\ currentStep' = 0
            /\ UNCHANGED sourceCode
            /\ Ran(r)
    IN  Processed(processStep(sourceCode, 0, [temp |-> tempCounter, label |-> labelCounter]))

\* the timer of the transition effect: the next step is shown and processed
StepTimer ==
    LET Processed(r) ==
            /\ Runnable(r)
            /\ currentStep' = currentStep + 1
            /\ UNCHANGED sourceCode
            /\ Ran(r)
    IN  /\ currentStep < Len(StepIds) - 1
        /\ Processed(processStep(sourceCode, currentStep + 1,
                                 [temp |-> tempCounter, label |-> labelCounter]))

Next ==
    \/ \E stmt \in Statements : SourceCodeChange(stmt)
    \/ SourceCodeClear
    \/ StartRun
    \/ StepTimer

Spec == Init /\ [][Next]_vars

-----------------------------------------------------------------------------
(* Specifications of the service functions on their own: the argument is    *)
(* drawn in the initial state and the function is called once on it.        *)

\* Init with the fields named in given replaced
InitWith(given) ==
    LET start == [sourceCode |-> "", tokens |-> <<>>, irCode |-> <<>>] IN
    /\ sourceCode = (given @@ start).sourceCode
    /\ currentStep = 0
    /\ tokens = (given @@ start).tokens
    /\ ast = NoAst
    /\ symbolTable = EmptyMap
    /\ irCode = (given @@ start).irCode
    /\ optimizedCode = <<>>
    /\ targetCode = <<>>
    /\ outcome = "idle"
    /\ error = NoError
    /\ attempted = <<>>
    /\ tempCounter = 0
    /\ labelCounter = 0
    /\ currentPhase = 0
    /\ activePhase = "lexical"
    /\ showPhases = FALSE

\* one call of the service function name on the arguments held in the state
ServiceCall(name) ==
    LET start == [StartOfRun(sourceCode, [temp |-> tempCounter, label |-> labelCounter])
                      EXCEPT !.tokens = tokens, !.irCode = irCode]
        Done(r) ==
            /\ r.outcome # "inexact"
            /\ UNCHANGED <<sourceCode, currentStep>>
            /\ Ran(r)
    IN  /\ outcome = "idle"
        /\ Done(Execute(<<name>>, start))

RECURSIVE Texts(_, _, _)
\* the texts made of at most n pieces, sep between two pieces
Texts(pieces, sep, n) ==
    IF n = 0 THEN {""}
    ELSE LET shorter == Texts(pieces, sep, n - 1)
         IN  shorter \cup {IF t = "" THEN p ELSE t \o sep \o p :
                               t \in shorter \ {""}, p \in pieces}
                     \cup pieces

\* SpecLex: lexicalAnalysis on the texts of at most MaxSourceLen characters
Alphabet == {"a", "1", " ", "\n", "\"", "=", "@", ";", "!"}

InitLex == \E code \in Texts(Alphabet, "", MaxSourceLen) : InitWith([sourceCode |-> code])

LexicalAnalysisCall == ServiceCall("lexicalAnalysis")

SpecLex == InitLex /\ [][LexicalAnalysisCall]_vars

\* SpecParse: syntaxAnalysis on the tokens of at most MaxTokens words
Words == {"class", "A", "{", "}", "1", ";", ":", "("}

InitParse ==
    \E code \in Texts(Words, " ", MaxTokens) :
        InitWith([sourceCode |-> code, tokens |-> Scan(code)])

SyntaxAnalysisCall == ServiceCall("syntaxAnalysis")

SpecParse == InitParse /\ [][SyntaxAnalysisCall]_vars

\* SpecOpt: optimize on the lists of at most MaxLines lines
IRLines ==
    {"t0 = 2 + 3", "x = t0", "x = 42", "t1 = x * 2", "y = t1 - x", "return x",
     "c.inc()", "x = x", "t0 = call f, 1"}

RECURSIVE Lists(_, _)
Lists(lines, n) ==
    IF n = 0 THEN {<<>>}
    ELSE LET shorter == Lists(lines, n - 1)
         IN  shorter \cup {Append(l, line) : l \in shorter, line \in lines}

InitOpt == \E code \in Lists(IRLines, MaxLines) : InitWith([irCode |-> code])

OptimizeCall == ServiceCall("optimize")

SpecOpt == InitOpt /\ [][OptimizeCall]_vars

-----------------------------------------------------------------------------
(* Specifications of PhaseVisualizer: the effect on [sourceCode, phase]     *)
(* calls the visualize function of the phase on the source text, once per   *)
(* source drawn in the initial state.                                       *)

\* the calls of the visualize function named by calls, made when the effect
\* does not return early on an empty source; an error ends in setError
Visualize(calls) ==
    LET Done(r) ==
            /\ r.outcome # "inexact"
            /\ UNCHANGED <<sourceCode, currentStep>>
            /\ Ran(r)
    IN  /\ outcome = "idle"
        /\ sourceCode # ""
        /\ Done(Execute(calls, StartOfRun(sourceCode,
                                          [temp |-> tempCounter, label |-> labelCounter])))

\* SpecSem: visualizeSemanticAnalysis on at most MaxStmts statements
SemStatements ==
    {"let x = y;", "y;", "let y = 1;", "let x = 1;", "{ let x = 2; }", "f(y);",
     "x + y;", "console.log(1);", "console.log(y);",
     "function f(a) { a; }", "function f(a) { { a; } }", "{ { y; } }"}

InitSem == \E code \in Texts(SemStatements, "\n", MaxStmts) : InitWith([sourceCode |-> code])

visualizeSemanticAnalysis ==
    Visualize(<<"lexicalAnalysis", "syntaxAnalysis", "semanticAnalysis">>)

SpecSem == InitSem /\ [][visualizeSemanticAnalysis]_vars

\* SpecGen: visualizeIntermediateCode on at most MaxStmts statements
GenStatements ==
    {"if (x) { y; }", "if (x > 0) { f(x, 3); }", "if (x) { f(1); } else { h(2); }",
     "if (x) { if (y) { z; } }",
     "a + b;", "f(a + b);", "f(x, 3);", "f();", "f(g(1), 2);",
     "return;", "return x;", "return f(1);"}

InitGen == \E code \in Texts(GenStatements, "\n", MaxStmts) : InitWith([sourceCode |-> code])

visualizeIntermediateCode ==
    Visualize(<<"lexicalAnalysis", "syntaxAnalysis", "generateIntermediateCode">>)

SpecGen == InitGen /\ [][visualizeIntermediateCode]_vars

\* SpecSyn: visualizeSyntaxAnalysis on at most MaxStmts statements: operand
\* sequences, productions cut short and string literals
BinaryOperators == {"+", "*", "==", "="}

SynStatements ==
    {"a " \o op1 \o " 3 " \o op2 \o " c;" : op1, op2 \in BinaryOperators}
    \cup {"2 + 3 * 4;", "foo(1, 2", "{ a;", "[1, 2", "function (a) { }", "class { }",
          "let s = \"hi\";", "f(\"hi\");"}

InitSyn == \E code \in Texts(SynStatements, "\n", MaxStmts) : InitWith([sourceCode |-> code])

visualizeSyntaxAnalysis == Visualize(<<"lexicalAnalysis", "syntaxAnalysis">>)

SpecSyn == InitSyn /\ [][visualizeSyntaxAnalysis]_vars

\* SpecTgt: visualizeCodeGeneration on sources with functions and returns,
\* with and without a value
TgtStatements ==
    {"function f(a) { return a; }", "function g() { }", "function h() { return; }",
     "return x;", "return f(1);", "f(1);", "let x = 1;", "if (x) { y; }", "x + y;", "y;"}

InitTgt == \E code \in Texts(TgtStatements, "\n", MaxStmts) : InitWith([sourceCode |-> code])

visualizeCodeGeneration ==
    Visualize(<<"lexicalAnalysis", "syntaxAnalysis", "generateIntermediateCode",
                "optimize", "generateTargetCode">>)

SpecTgt == InitTgt /\ [][visualizeCodeGeneration]_vars

-----------------------------------------------------------------------------
(* Specification SpecDemo: the phase viewer of CompilerDemo.  A click is    *)
(* a discrete event: React renders between two of them, so every handler    *)
(* reads the state the one before it left.                                  *)

\* the ids of `phases`, in order
phases == <<"lexical", "syntax", "semantic", "intermediate", "optimization", "codegen">>

\* phases[index].id, undefined outside the array
PhaseId(index) == IF index \in 0..(Len(phases) - 1) THEN phases[index + 1] ELSE Undefined

\* a Next that is never refused
HasNext_Always(index) == TRUE

\* the guards of handleNextPhase and handlePreviousPhase
HasNext(index) == index < Len(phases) - 1
HasPrevious(index) == index > 0

compilerState == <<currentStep, tokens, ast, symbolTable, irCode, optimizedCode,
                   targetCode, outcome, error, attempted, tempCounter, labelCounter>>

\* the texts typed in the editor
DemoSources == {""} \cup Statements \cup GenStatements

handleSourceCodeChange(code) ==
    /\ sourceCode' = code
    /\ UNCHANGED <<compilerState, currentPhase, activePhase, showPhases>>

handleViewPhases ==
    /\ showPhases' = TRUE
    /\ currentPhase' = 0
    /\ activePhase' = PhaseId(0)
    /\ UNCHANGED <<sourceCode, compilerState>>

\* the close button of the viewer
ClosePhases ==
    /\ showPhases
    /\ showPhases' = FALSE
    /\ UNCHANGED <<sourceCode, compilerState, currentPhase, activePhase>>

handleNextPhase ==
    /\ showPhases
    /\ IF HasNext(currentPhase)
       THEN /\ currentPhase' = currentPhase + 1
            /\ activePhase' = PhaseId(currentPhase + 1)
       ELSE UNCHANGED <<currentPhase, activePhase>>
    /\ UNCHANGED <<sourceCode, compilerState, showPhases>>

handlePreviousPhase ==
    /\ showPhases
    /\ IF HasPrevious(currentPhase)
       THEN /\ currentPhase' = currentPhase - 1
            /\ activePhase' = PhaseId(currentPhase - 1)
       ELSE UNCHANGED <<currentPhase, activePhase>>
    /\ UNCHANGED <<sourceCode, compilerState, showPhases>>

\* the onClick of the button of phases[index]
PhaseButtonClick(index) ==
    /\ showPhases
    /\ currentPhase' = index
    /\ activePhase' = PhaseId(index)
    /\ UNCHANGED <<sourceCode, compilerState, showPhases>>

NextDemo ==
    \/ \E code \in DemoSources : handleSourceCodeChange(code)
    \/ handleViewPhases
    \/ ClosePhases
    \/ handleNextPhase
    \/ handlePreviousPhase
    \/ \E index \in 0..(Len(phases) - 1) : PhaseButtonClick(index)

SpecDemo == Init /\ [][NextDemo]_vars

-----------------------------------------------------------------------------
(* Properties *)

\* the last run called the service function name
Called(name) == \E i \in DOMAIN attempted : attempted[i] = name

\* ... and the call returned
Returned(name) ==
    /\ Called(name)
    /\ outcome = "ok" \/ (outcome = "error" /\ attempted[Len(attempted)] # name)

RECURSIVE Lexemes(_)
\* the token values, concatenated in stream order
Lexemes(toks) == IF toks = <<>> THEN "" ELSE Head(toks).value \o Lexemes(Tail(toks))

\* the characters of a text
Chars(text) == {CharAt(text, i) : i \in 1..Len(text)}

\* C1: every call of syntaxAnalysis ends, either with a Program node or with
\* one error of the syntax phase; it never fails to return.
C1_SyntaxAnalysisEnds ==
    Called("syntaxAnalysis") =>
        \/ outcome = "ok" /\ ast.type = "Program"
        \/ /\ outcome = "error"
           /\ error.name = "CompilerError"
           /\ error.phase = "syntax"

\* C2: a reference to y placed after the block that declares y makes
\* semanticAnalysis raise the error of an undefined variable.
C2_BlockLocalsDoNotLeak ==
    LET lines == Lines(sourceCode)
    IN  (/\ Returned("syntaxAnalysis")
         /\ Called("semanticAnalysis")
         /\ \E i, j \in DOMAIN lines :
                i < j /\ lines[i] = "{ let y = 1; }" /\ lines[j] = "y;")
        => /\ outcome = "error"
           /\ error.phase = "semantic"
           /\ error.message = "Undefined variable: y"

\* C3: a run is fail-fast: intermediate code is produced only for a tree on
\* which semantic analysis does not fault.
C3_NoCodeWithoutSemantics ==
    (Returned("generateIntermediateCode") /\ irCode # <<>>)
        => semanticAnalysis(ast).st = "ok"

\* C4: whatever a phase throws is a CompilerError tagged with one of the
\* phases validation, lexical, syntax, semantic.
C4_ErrorsAreTagged ==
    outcome = "error" =>
        /\ error.name = "CompilerError"
        /\ error.phase \in {"validation", "lexical", "syntax", "semantic"}

\* the names tN and LN
IsTempName(name) == Len(name) > 1 /\ StartsWith(name, "t") /\ AllDigits(Tail(name))
IsLabelName(name) == Len(name) > 1 /\ StartsWith(name, "L") /\ AllDigits(Tail(name))

\* the lines of code that assign a temp, and those that define a label
TempDefinitions(code) ==
    {i \in DOMAIN code : Includes(code[i], " = ") /\ IsTempName(Split(code[i], " ")[1])}
LabelDefinitions(code) ==
    {i \in DOMAIN code :
         EndsWith(code[i], ":") /\ IsLabelName(SubSeq(code[i], 1, Len(code[i]) - 1))}

\* C5: what a run leaves is what a first run on the same source and step
\* yields, whatever ran before; and the temps and labels of a pass start at
\* t0 and L0.
C5_RunsAreIndependent ==
    outcome \in {"ok", "error"} =>
        LET first == processStep(sourceCode, currentStep, [temp |-> 0, label |-> 0])
        IN  /\ tokens = first.tokens
            /\ ast = first.ast
            /\ irCode = first.irCode
            /\ optimizedCode = first.optimizedCode
            /\ targetCode = first.targetCode
            /\ outcome = first.outcome
            /\ error = first.error
            /\ TempDefinitions(irCode) # {} =>
                   \E i \in TempDefinitions(irCode) : Split(irCode[i], " ")[1] = "t0"
            /\ LabelDefinitions(irCode) # {} =>
                   \E i \in LabelDefinitions(irCode) : irCode[i] = "L0:"

\* a run that generates temps and labels after an earlier one that did
C5_Witness ==
    /\ sourceCode = "if (x > 0) { f(x, 3); }\nif (x > 0) { f(x, 3); }"
    /\ currentStep = 5
    /\ outcome = "ok"
    /\ Cardinality(TempDefinitions(irCode)) = 4
    /\ Cardinality(LabelDefinitions(irCode)) = 4

\* C6: in the code of one pass no temp is assigned by two lines and no label
\* is defined by two lines.
C6_NamesAreDistinct ==
    Returned("generateIntermediateCode") =>
        /\ \A i, j \in TempDefinitions(irCode) :
               i # j => Split(irCode[i], " ")[1] # Split(irCode[j], " ")[1]
        /\ \A i, j \in LabelDefinitions(irCode) : i # j => irCode[i] # irCode[j]

\* a pass that hands out four temps and four labels
C6_Witness ==
    /\ Returned("generateIntermediateCode")
    /\ tempCounter = 4
    /\ labelCounter = 4
    /\ {Split(irCode[i], " ")[1] : i \in TempDefinitions(irCode)} = {"t0", "t1", "t2", "t3"}
    /\ {irCode[i] : i \in LabelDefinitions(irCode)} = {"L0:", "L1:", "L2:", "L3:"}

\* C7 as stated: the lexemes of an accepted source, concatenated, are the
\* source without its whitespace.
C7_LexemesAreTheSource ==
    Returned("lexicalAnalysis") => Lexemes(tokens) = StripWhitespace(sourceCode)

\* letters, digits, the underscore, the dot and the operator characters
PlainCharacters ==
    LowerCase \cup UpperCase \cup Digit \cup
    {"_", ".", "+", "-", "*", "/", "=", "<", ">", "!", "&", "|",
     "(", ")", "{", "}", "[", "]", ";", ","}

\* C7: the lexemes of an accepted source that holds no quote and no
\* character outside the identifier, number and operator characters,
\* concatenated, are the source without its whitespace.
C7_PlainSourceIsItsLexemes ==
    (/\ Returned("lexicalAnalysis")
     /\ Chars(sourceCode) \subseteq PlainCharacters \cup Whitespace)
        => Lexemes(tokens) = StripWhitespace(sourceCode)

\* an assignment with whitespace in it, scanned into three tokens
C7_Witness ==
    /\ sourceCode = "a =1"
    /\ Returned("lexicalAnalysis")
    /\ Len(tokens) = 3
    /\ Lexemes(tokens) = "a=1"

\* C8: lexicalAnalysis on a source of whitespace only (or of nothing) throws
\* the validation error "Source code cannot be empty" and yields no token.
C8_EmptySourceIsRejected ==
    (Called("lexicalAnalysis") /\ Chars(sourceCode) \subseteq Whitespace)
        => /\ outcome = "error"
           /\ error.name = "CompilerError"
           /\ error.phase = "validation"
           /\ error.message = "Source code cannot be empty"
           /\ tokens = <<>>

\* the call on a blank and a line break
C8_Witness ==
    /\ sourceCode = " \n"
    /\ Called("lexicalAnalysis")
    /\ outcome = "error"

\* C9: optimize replaces a folded line by one assignment of the computed
\* value: ["t0 = 2 + 3", "x = t0"] becomes ["t0 = 5", "x = 5"].
C9_FoldedLineIsReplaced ==
    (irCode = <<"t0 = 2 + 3", "x = t0">> /\ Returned("optimize"))
        => optimizedCode = <<"t0 = 5", "x = 5">>

\* C10: the code of `let x = 42;` is ["x = 42"], and that of
\* `let x = 2 + 3;` is ["t0 = 2 + 3", "x = t0"].
C10_DeclarationIsLowered ==
    Returned("generateIntermediateCode") =>
        /\ sourceCode = "let x = 42;" => irCode = <<"x = 42">>
        /\ sourceCode = "let x = 2 + 3;" => irCode = <<"t0 = 2 + 3", "x = t0">>

RECURSIVE IdentifiersIn(_)
\* the names of the Identifier nodes of a tree that are references: every
\* one but the name child of a VariableDeclaration
IdentifiersIn(node) ==
    LET kids == Children(node)
        visited == IF node.type = "VariableDeclaration" THEN DOMAIN kids \ {1}
                   ELSE DOMAIN kids
    IN  (IF node.type = "Identifier" /\ Value(node) # Undefined THEN {node.value} ELSE {})
        \cup UNION {IdentifiersIn(kids[i]) : i \in visited}

RECURSIVE DeclaredIn(_)
\* the names a tree declares anywhere: variables, functions, parameters,
\* classes and methods
DeclaredIn(node) ==
    LET kids == Children(node)
        own == CASE node.type = "VariableDeclaration" /\ Len(kids) > 0 -> {Value(kids[1])}
                 [] node.type \in {"FunctionDeclaration", "Parameter", "ClassDeclaration",
                                   "MethodDeclaration"} -> {Value(node)}
                 [] OTHER -> {}
    IN  own \cup UNION {DeclaredIn(kids[i]) : i \in DOMAIN kids}

\* C11: semanticAnalysis returns only when every Identifier reference of the
\* program, an initializer's included, is bound in a scope: a name that the
\* program declares nowhere and that is no built-in makes it raise
\* "Undefined variable: <name>".
C11_ReferencesAreResolved ==
    Returned("semanticAnalysis") =>
        IdentifiersIn(ast) \subseteq DeclaredIn(ast) \cup {"console.log"}

\* the name declared by a source line that is a `let` declaration at the top
\* level, "" for any other line
DeclaredByLine(line) == IF StartsWith(line, "let ") THEN Split(line, " ")[2] ELSE ""

\* C12: declaring a name a second time in the same scope (here the global
\* scope: two `let` lines of the same name) makes semanticAnalysis raise a
\* semantic error.
C12_RedeclarationIsRejected ==
    LET lines == Lines(sourceCode)
    IN  (/\ Returned("syntaxAnalysis")
         /\ Called("semanticAnalysis")
         /\ \E i, j \in DOMAIN lines :
                /\ i < j
                /\ DeclaredByLine(lines[i]) # ""
                /\ DeclaredByLine(lines[i]) = DeclaredByLine(lines[j]))
        => /\ outcome = "error"
           /\ error.name = "CompilerError"
           /\ error.phase = "semantic"

\* the lines of code that are assignments, the name each assigns and the
\* words of its right-hand side
Assignments(code) == {i \in DOMAIN code : Includes(code[i], " = ")}
Destination(line) == Trim(Split(line, " = ")[1])
Operands(line) ==
    LET words == Split(Split(line, " = ")[2], " ") IN {words[i] : i \in DOMAIN words}

\* three assignments of code, each using the name assigned by the one before
HasChainOfThree(code) ==
    \E i, j, k \in Assignments(code) :
        /\ i < j /\ j < k
        /\ Destination(code[i]) \in Operands(code[j])
        /\ Destination(code[j]) \in Operands(code[k])

\* C13: optimize returns its own output unchanged, for every list of lines
\* without a chain of three dependent assignments.
C13_OptimizeIsIdempotent ==
    (Returned("optimize") /\ ~HasChainOfThree(irCode))
        => optimize(optimizedCode) = Ok([optimizedCode |-> optimizedCode])

\* the source calls console.log, on a literal or on a name declared above
\* the call, and declares nothing but that name
CallsConsoleLog(code) ==
    LET lines == Lines(code)
    IN  /\ \A i \in DOMAIN lines :
               lines[i] \in {"let y = 1;", "console.log(1);", "console.log(y);"}
        /\ \E i \in DOMAIN lines : StartsWith(lines[i], "console.log(")
        /\ \A j \in DOMAIN lines :
               lines[j] = "console.log(y);" => \E i \in 1..(j - 1) : lines[i] = "let y = 1;"

\* C14: a program that calls console.log without declaring it goes through
\* lexical, syntax and semantic analysis without any error.
C14_ConsoleLogIsBuiltIn ==
    (Called("lexicalAnalysis") /\ CallsConsoleLog(sourceCode))
        => /\ outcome = "ok"
           /\ Returned("semanticAnalysis")

\* the lines of code that are conditional jumps
IfLines(code) == {i \in DOMAIN code : StartsWith(code[i], "if ")}

\* the number of `if` statements of the source
IfStatements == Cardinality({i \in DOMAIN tokens : tokens[i].type = "keyword"
                                                   /\ tokens[i].value = "if"})

\* an operand at line i of code: an identifier or a number of the source, or
\* a temp assigned by an earlier line
IsOperandAt(code, name, i) ==
    \/ \E k \in DOMAIN tokens :
           tokens[k].type \in {"identifier", "number"} /\ tokens[k].value = name
    \/ IsTempName(name) /\ \E j \in 1..(i - 1) : StartsWith(code[j], name \o " = ")

\* C15: every IfStatement is lowered to `if <cond> goto Ltrue`, `goto Lend`,
\* `Ltrue:`, the then-branch, `Lend:`, in this order and after the
\* condition's instructions, <cond> being the operand the condition was
\* lowered to; an else branch adds no label and no instruction.
C15_IfIsLowered ==
    Returned("generateIntermediateCode") =>
        /\ Cardinality(IfLines(irCode)) = IfStatements
        /\ Cardinality(LabelDefinitions(irCode)) = 2 * IfStatements
        /\ \A i \in DOMAIN irCode : ~Includes(irCode[i], "call h")
        /\ \A i \in IfLines(irCode) :
               LET jump == Split(irCode[i], " ")
                   labelEnd == SubSeq(irCode[i + 1], 6, Len(irCode[i + 1]))
               IN  /\ Len(jump) = 4
                   /\ jump[3] = "goto"
                   /\ IsLabelName(jump[4])
                   /\ IsOperandAt(irCode, jump[2], i)
                   /\ i + 3 <= Len(irCode)
                   /\ StartsWith(irCode[i + 1], "goto ")
                   /\ IsLabelName(labelEnd)
                   /\ labelEnd # jump[4]
                   /\ irCode[i + 2] = jump[4] \o ":"
                   /\ \E k \in (i + 3)..Len(irCode) : irCode[k] = labelEnd \o ":"

\* C16: a BinaryExpression is lowered to one line `tN = <left> <op> <right>`
\* on its lowered operands, tN being fresh and the operand it returns: the
\* code of `a + b;` is ["t0 = a + b"] and that of `f(a + b);` is
\* ["t0 = a + b", "param t0", "t1 = call f, 1"].
C16_BinaryIsLowered ==
    Returned("generateIntermediateCode") =>
        /\ sourceCode = "a + b;" => irCode = <<"t0 = a + b">>
        /\ sourceCode = "f(a + b);" => irCode = <<"t0 = a + b", "param t0", "t1 = call f, 1">>

\* the lines of code that are calls, and the argument count each carries
CallLines(code) == {k \in DOMAIN code : Includes(code[k], " = call ")}
ArgCount(line) == DigitsValue(Split(line, " ")[5], 0)

RECURSIVE IsCallTree(_)
\* an identifier, a number, or a call whose arguments are such trees
IsCallTree(node) ==
    \/ node.type \in {"Identifier", "NumberLiteral"}
    \/ /\ node.type = "FunctionCall"
       /\ \A i \in DOMAIN Children(node) : IsCallTree(Children(node)[i])

RECURSIVE CallLowering(_, _)
\* what C17 says of call trees, the first temp being TempName(t): the
\* arguments left to right, then one param line per argument in order, then
\* the call line on a fresh temp, which is the operand of the call
CallLowering(nodes, t) ==
    IF nodes = <<>> THEN [code |-> <<>>, rets |-> <<>>, temp |-> t]
    ELSE LET node == Head(nodes)
             args == CallLowering(Children(node), t)
             first ==
                 IF node.type = "FunctionCall"
                 THEN [code |-> args.code
                                \o [i \in DOMAIN args.rets |-> "param " \o args.rets[i]]
                                \o <<TempName(args.temp) \o " = call " \o node.value \o ", "
                                      \o ToString(Len(Children(node)))>>,
                       ret |-> TempName(args.temp),
                       temp |-> args.temp + 1]
                 ELSE [code |-> <<>>, ret |-> node.value, temp |-> t]
             rest == CallLowering(Tail(nodes), first.temp)
         IN  [code |-> first.code \o rest.code,
              rets |-> <<first.ret>> \o rest.rets,
              temp |-> rest.temp]

\* the statements of the program that are not empty statements
Statement(node) == node.type # "EmptyStatement"

C18_ReturnIsLowered ==
    Called("generateIntermediateCode") =>
        /\ sourceCode = "return;" => outcome = "ok" /\ irCode = <<"return">>
        /\ sourceCode = "return x;" => outcome = "ok" /\ irCode = <<"return x">>
        /\ sourceCode = "return f(1);" =>
               outcome = "ok" /\ irCode = <<"param 1", "t0 = call f, 1", "return t0">>

\* a `function`, `param`, `call`, `return`, label or `class` line
IsPassThrough(line) ==
    \/ StartsWith(line, "function") \/ StartsWith(line, "param ") \/ StartsWith(line, "class ")
    \/ StartsWith(line, "return")
    \/ Includes(line, " = call ")
    \/ EndsWith(line, ":")

\* C19: the function, param, call, return, label and class lines of the
\* input are the lines of these kinds of the output, each once per
\* occurrence, in the same order and with the same text.
C19_PassThroughLinesAreKept ==
    Returned("optimize") =>
        SelectSeq(optimizedCode, IsPassThrough) = SelectSeq(irCode, IsPassThrough)

\* a line that assigns a name to itself
IsSelfAssignment(line) ==
    Includes(line, " = ") /\ Operands(line) = {Destination(line)}

\* C20: no self-assignment `x = x` of the input is a line of the output.
C20_SelfAssignmentIsDropped ==
    Returned("optimize") =>
        \A i \in DOMAIN optimizedCode :
            IsSelfAssignment(optimizedCode[i]) =>
                \A j \in DOMAIN irCode : irCode[j] # optimizedCode[i]

\* the statement `a op1 b op2 c;`: five tokens, operators at 2 and 4, and a
\* semicolon
IsOperandSequence(toks) ==
    /\ Len(toks) = 6
    /\ \A i \in {1, 3, 5} : toks[i].type \in {"identifier", "number"}
    /\ \A i \in {2, 4} : toks[i].type = "operator" /\ isOperator(toks[i].value)
    /\ toks[6].value = ";"

\* the node of an operand token
Operand(tok) ==
    [type |-> IF tok.type = "number" THEN "NumberLiteral" ELSE "Identifier",
     value |-> tok.value]

\* C21: `a op1 b op2 c` parses as the BinaryExpression op2 of the
\* BinaryExpression op1 of a and b, and of c, whatever the two operators:
\* no precedence, left to right, left operand first.
C21_OperatorsBindLeftToRight ==
    (Called("syntaxAnalysis") /\ IsOperandSequence(tokens))
        => /\ outcome = "ok"
           /\ ast.children[1] =
                  [type |-> "BinaryExpression", value |-> tokens[4].value,
                   children |->
                       <<[type |-> "BinaryExpression", value |-> tokens[2].value,
                          children |-> <<Operand(tokens[1]), Operand(tokens[3])>>],
                         Operand(tokens[5])>>]

\* 2 + 3 * 4 parsed as (2 + 3) * 4
C21_Witness ==
    /\ sourceCode = "2 + 3 * 4;"
    /\ Returned("syntaxAnalysis")
    /\ ast.children[1].value = "*"
    /\ ast.children[1].children[1].value = "+"
    /\ ast.children[1].children[2].value = "4"

\* a line or column of an error that is a number, not undefined
IsPosition(v) == ToString(v) # ToString(Undefined)

\* the error reports a missing terminator or a missing name
MissingTerminatorOrName(e) ==
    /\ e.name = "CompilerError"
    /\ \/ StartsWith(e.message, "Expected closing")
       \/ e.message \in {"Expected function name", "Expected class name"}

\* C22: a production cut short of its closing parenthesis, brace or bracket,
\* or without its function or class name, ends the parse with one syntax
\* error that carries a line and a column; the call `foo(1, 2` raises
\* "Expected closing parenthesis in function call".
C22_MissingTerminatorIsLocated ==
    Called("syntaxAnalysis") =>
        /\ sourceCode = "foo(1, 2" =>
               /\ outcome = "error"
               /\ error.message = "Expected closing parenthesis in function call"
        /\ (outcome = "error" /\ MissingTerminatorOrName(error)) =>
               /\ error.phase = "syntax"
               /\ IsPosition(error.line)
               /\ IsPosition(error.column)

\* C24: a string token where a Primary may stand, the initializer of a
\* declaration or the argument of a call, is parsed into a node of the tree:
\* syntaxAnalysis returns.
C24_StringIsAPrimary ==
    (Called("syntaxAnalysis") /\ sourceCode \in {"let s = \"hi\";", "f(\"hi\");"})
        => outcome = "ok" /\ ast.type = "Program"

RECURSIVE Munch(_)
\* the operators of a text read greedily from the left: at a character of
\* the table, that character and the next one when the two together are in
\* the table, the character alone otherwise; other characters are passed
Munch(text) ==
    IF text = "" THEN <<>>
    ELSE IF CharAt(text, 1) \notin LexOperators THEN Munch(SubSeq(text, 2, Len(text)))
    ELSE IF Len(text) >= 2 /\ SubSeq(text, 1, 2) \in LexOperators
         THEN <<SubSeq(text, 1, 2)>> \o Munch(SubSeq(text, 3, Len(text)))
         ELSE <<SubSeq(text, 1, 1)>> \o Munch(SubSeq(text, 2, Len(text)))

\* the values of the operator tokens, in stream order
OperatorValues(toks) ==
    LET ops == SelectSeq(toks, LAMBDA t : t.type = "operator")
    IN  [k \in DOMAIN ops |-> ops[k].value]

\* C23: the lexer reads operators with one character of lookahead: where a
\* character and the next one together are a recognized operator it emits
\* one two-character token, otherwise one single-character token, and no
\* operator token is longer than two characters.
C23_OperatorsAreMunchedByTwo ==
    Returned("lexicalAnalysis") =>
        /\ \A k \in DOMAIN tokens :
              tokens[k].type = "operator" =>
                  Len(tokens[k].value) \in {1, 2} /\ tokens[k].value \in LexOperators
        /\ Chars(sourceCode) \cap {"\"", "'", "."} = {} =>
              OperatorValues(tokens) = Munch(sourceCode)

\* three equal signs were read as a two-character token and a single one
C23_Witness ==
    /\ Returned("lexicalAnalysis")
    /\ sourceCode = "==="
    /\ OperatorValues(tokens) = <<"==", "=">>

\* the index in the text of the character at a line and column, both counted
\* from 1 (0 when the text has no such line)
IndexAt(text, line, column) ==
    LET newlines == {i \in 1..Len(text) : CharAt(text, i) = "\n"}
        starts == {0} \cup newlines
        onLine == {i \in starts : Cardinality({j \in newlines : j <= i}) = line - 1}
    IN  IF onLine = {} THEN 0 ELSE (CHOOSE i \in onLine : TRUE) + column

\* the text begins, at the position recorded in the token, with the token:
\* with its opening quote for a string, with its value otherwise
StartsAtItsPosition(text, tok) ==
    LET at == IndexAt(text, tok.line, tok.column)
        lexeme == IF tok.type = "string" THEN "\"" ELSE tok.value
    IN  /\ at >= 1
        /\ at + Len(lexeme) - 1 <= Len(text)
        /\ SubSeq(text, at, at + Len(lexeme) - 1) = lexeme

\* C29: the line and column recorded in every token are those of the first
\* character of the token in the source, for strings, for operators of one
\* and of two characters, and for tokens that follow a string on its line.
C29_TokensCarryTheirStart ==
    Returned("lexicalAnalysis") =>
        \A k \in DOMAIN tokens :
            /\ StartsAtItsPosition(sourceCode, tokens[k])
            /\ k > 1 => IndexAt(sourceCode, tokens[k - 1].line, tokens[k - 1].column)
                          < IndexAt(sourceCode, tokens[k].line, tokens[k].column)

\* line k of code reads the name v after line i gave it a literal and line
\* j, the last assignment of v before k, gave it a name that no earlier
\* line assigns
ReadsAfterReassignment(code, i, j, k, v) ==
    /\ {i, j, k} \subseteq Assignments(code) /\ i < j /\ j < k
    /\ Destination(code[i]) = v /\ Destination(code[j]) = v
    /\ \E c \in Operands(code[i]) : Operands(code[i]) = {c} /\ ~IsNaN(c)
    /\ \E w \in Operands(code[j]) :
          /\ Operands(code[j]) = {w} /\ IsNaN(w) /\ w # v
          /\ \A h \in Assignments(code) : h < j => Destination(code[h]) # w
    /\ \A h \in Assignments(code) : (j < h /\ h < k) => Destination(code[h]) # v
    /\ v \in Operands(code[k])
    /\ \A h \in Assignments(code) : Destination(code[h]) = Destination(code[k]) => h = k

\* C26: a constant recorded for a name is not put in the place of the name
\* in a line that reads it after the name was reassigned from a value that
\* is no literal: the line of the output still reads the name.
C26_NoStaleConstant ==
    Returned("optimize") =>
        \A i, j, k \in DOMAIN irCode : \A v \in {Destination(irCode[h]) : h \in Assignments(irCode)} :
            ReadsAfterReassignment(irCode, i, j, k, v) =>
                \A n \in Assignments(optimizedCode) :
                    Destination(optimizedCode[n]) = Destination(irCode[k]) =>
                        v \in Operands(optimizedCode[n])

\* the label a line jumps to: of `goto L` and of `if c goto L`
IsJump(line) == StartsWith(line, "goto ") \/ (StartsWith(line, "if ") /\ Includes(line, " goto "))
JumpTarget(line) == LET words == Split(line, " ") IN words[Len(words)]

\* C27: in the list generateIntermediateCode returns, the label of every
\* `goto L` and `if c goto L` line is defined by exactly one line `L:`, and
\* that line comes after the jump.
C27_JumpsAreResolvedForward ==
    (Returned("generateIntermediateCode") /\ outcome = "ok") =>
        \A i \in DOMAIN irCode :
            IsJump(irCode[i]) =>
                LET defs == {j \in DOMAIN irCode : irCode[j] = JumpTarget(irCode[i]) \o ":"}
                IN  Cardinality(defs) = 1 /\ \A j \in defs : j > i

\* the four jumps and the four labels of an if statement inside another
C27_Witness ==
    /\ Returned("generateIntermediateCode") /\ outcome = "ok"
    /\ Cardinality({i \in DOMAIN irCode : IsJump(irCode[i])}) = 4
    /\ Cardinality(LabelDefinitions(irCode)) = 4
    /\ sourceCode = "if (x) { if (y) { z; } }"

\* a node whose case pushes a scope for its children
OpensScope(node) ==
    \/ node.type = "Block"
    \/ node.type = "FunctionDeclaration" /\ Value(node) \notin {Undefined, ""}

\* the children that the case of a node analyses
Analysed(node) ==
    IF node.type \in {"VariableDeclaration", "Identifier"} THEN <<>>
    ELSE IF node.type = "FunctionDeclaration"
         THEN IF OpensScope(node) THEN NonParameters(Children(node)) ELSE <<>>
         ELSE Children(node)

RECURSIVE Visits(_, _, _)
RECURSIVE VisitsAll(_, _, _)

\* the pairs <<depth of the scope stack, number of open nodes>> met when the
\* analysis enters node and each node below it, node being entered on the
\* stack scopes inside `open` Block and FunctionDeclaration nodes
Visits(node, scopes, open) ==
    {<<Len(scopes), open>>}
        \cup VisitsAll(Analysed(node), Entered(node, scopes),
                       IF OpensScope(node) THEN open + 1 ELSE open)

\* ... of a forEach over nodes, up to the first exception
VisitsAll(nodes, scopes, open) ==
    IF nodes = <<>> THEN {}
    ELSE Visits(Head(nodes), scopes, open)
           \cup (LET r == analyze(Head(nodes), scopes)
                 IN  IF r.st # "ok" THEN {} ELSE VisitsAll(Tail(nodes), r.scopes, open))

\* C28: whenever the analysis enters a node the scope stack holds the global
\* scope and one scope per Block and FunctionDeclaration node being
\* analysed, so the global scope is never popped; and when semanticAnalysis
\* returns, only the global scope is left.
C28_ScopesAreBalanced ==
    Called("semanticAnalysis") =>
        /\ \A v \in Visits(ast, <<EmptyMap>>, 0) : v[1] = 1 + v[2]
        /\ Returned("semanticAnalysis") => Len(analyze(ast, <<EmptyMap>>).scopes) = 1

\* a returned analysis that went through a function, its body and a block
\* inside it
C28_Witness ==
    /\ Returned("semanticAnalysis")
    /\ <<4, 3>> \in Visits(ast, <<EmptyMap>>, 0)
    /\ Len(analyze(ast, <<EmptyMap>>).scopes) = 1

\* the number of places of code where the lines of block follow one another
Occurrences(code, block) ==
    Cardinality({i \in 1..(Len(code) - Len(block) + 1) :
                     SubSeq(code, i, i + Len(block) - 1) = block})

\* the number of lines of code that start with word
LinesStarting(code, word) == Cardinality({i \in DOMAIN code : StartsWith(code[i], word)})

\* C25: generateTargetCode emits one prologue (a label, `push rbp`,
\* `mov rbp, rsp`) per `function` line of its input and one epilogue
\* (`mov rsp, rbp`, `pop rbp`, `ret`) per `return` line, with or without a
\* value.
C25_OneFramePerFunctionAndReturn ==
    (Returned("generateTargetCode") /\ outcome = "ok") =>
        /\ Occurrences(targetCode, Prologue) = LinesStarting(optimizedCode, "function")
        /\ \A i \in 2..Len(targetCode) :
              targetCode[i] = Prologue[1] => EndsWith(targetCode[i - 1], ":")
        /\ Occurrences(targetCode, Epilogue) = LinesStarting(optimizedCode, "return")

\* currentPhase is an index of phases and activePhase the id found there
IndexNamesPhase ==
    /\ currentPhase \in 0..(Len(phases) - 1)
    /\ activePhase = phases[currentPhase + 1]

\* C30: whatever the sequence of handleViewPhases, handleNextPhase,
\* handlePreviousPhase and clicks on a phase button, currentPhase is an index
\* of phases and activePhase is the id of phases[currentPhase]; Next at the
\* last phase and Previous at the first one change nothing.
C30_PhaseViewerIsConsistent ==
    /\ []IndexNamesPhase
    /\ [][/\ (handleNextPhase /\ currentPhase = Len(phases) - 1) => UNCHANGED vars
          /\ (handlePreviousPhase /\ currentPhase = 0) => UNCHANGED vars]_vars

\* the viewer is open on the last phase, which only Next or a button reaches
C30_Witness ==
    /\ showPhases
    /\ currentPhase = 5
    /\ activePhase = "codegen"

=============================================================================
